---- MODULE Spec2Model ----
(***************************************************************************)
(* A model of the voxel world of vibecraft: World (chunk map, coordinate   *)
(* mapping, streaming, reads and writes) and Chunk (voxel array, terrain   *)
(* generation, face visibility, mesh building).                            *)
(*                                                                         *)
(* The world is checked at a reduced size: the source sets CHUNK_SIZE =    *)
(* 16, WORLD_HEIGHT = 128 and RENDER_DISTANCE = 3; the definitions below   *)
(* keep the names and give values small enough to enumerate.  The layer    *)
(* thresholds of Chunk.generate are the source's own.                      *)
(***************************************************************************)
EXTENDS Integers, Sequences, FiniteSets, TLC

\* ------------------------------------------------------------------ sizes
CHUNK_SIZE == 3
WORLD_HEIGHT == 3
RENDER_DISTANCE == 1
\* number of SimplexNoise seeds told apart, less one
MaxSeed == 0
\* number of World.update and World.setBlock calls in one behaviour
MaxOps == 3
\* number of World.setBlock calls among them
MaxEdits == 1
\* terrain heights are fractions; the model counts them in 1/HeightScale
HeightScale == 2

\* ------------------------------------------------------------ voxel kinds
AIR == "AIR"
BEDROCK == "BEDROCK"
STONE == "STONE"
DIRT == "DIRT"
GRASS == "GRASS"
SAND == "SAND"
WATER == "WATER"
GLASS == "GLASS"
LEAVES == "LEAVES"
WOOD == "WOOD"
BRICK == "BRICK"

BlockType ==
  {AIR, BEDROCK, STONE, DIRT, GRASS, SAND, WATER, GLASS, LEAVES, WOOD, BRICK}

\* the list [WATER, GLASS, LEAVES] that Chunk.isFaceVisible tests with includes()
TransparentKinds == {WATER, GLASS, LEAVES}

\* ------------------------------------------------------------- arithmetic
\* Math.floor(a / b) for an integer a and b > 0
FloorDiv(a, b) == IF a >= 0 THEN a \div b ELSE -(((-a) + b - 1) \div b)

\* the JavaScript remainder a % b: truncated, with the sign of the dividend
JsRem(a, b) == IF a >= 0 THEN a % b ELSE -((-a) % b)

Max(a, b) == IF a >= b THEN a ELSE b
Min(a, b) == IF a <= b THEN a ELSE b

\* ------------------------------------------------------------ chunk keys
Key(cx, cz) == <<cx, cz>>

LocalCells ==
  (0 .. CHUNK_SIZE - 1) \X (0 .. WORLD_HEIGHT - 1) \X (0 .. CHUNK_SIZE - 1)

\* the array built by the Chunk constructor: every voxel AIR
EmptyBlocks == [c \in LocalCells |-> AIR]

\* ------------------------------------------------- random draws of a chunk
\* One draw r stands for the random numbers one Chunk consumes: the seed of
\* its own SimplexNoise (new SimplexNoise() seeds itself with Math.random()),
\* the outcome of the 2% tree roll and the trunk height.
Randoms == 0 .. MaxSeed

\* Math.random() < 0.02 at column (x, z) of a chunk whose draw is r
TreeRoll(r, x, z) == r > 0

\* 4 + Math.floor(Math.random() * 3)
TrunkHeight(r) == 4 + (r % 3)

\* The sum of the three noise octaves at (x, z), in 1/HeightScale.  The float
\* arithmetic of SimplexNoise.noise is not reproduced: the sum is some value
\* in [-33, 33] fixed by the seed and the coordinates.  Seed 0 is flat ground
\* at the base height, the other seeds lower ground that varies by column.
NoiseSum(seed, x, z) ==
  IF seed = 0 THEN 0
  ELSE -(8 * HeightScale) - ((seed + 3 * x + 7 * z) % (2 * HeightScale + 1))

\* the voxel indices of a chunk constructed with the given size and height
CellsOf(size, height) ==
  (0 .. size - 1) \X (0 .. height - 1) \X (0 .. size - 1)

\* Math.max(1, Math.min(this.height - 1, terrainHeight)) for a chunk of the
\* given height and a noise sum, in 1/HeightScale
ClampHeight(height, noise) ==
  Max(1 * HeightScale,
      Min((height - 1) * HeightScale, 10 * HeightScale + noise))

\* Chunk.getTerrainHeight, in 1/HeightScale
GetTerrainHeight(seed, x, z) == ClampHeight(WORLD_HEIGHT, NoiseSum(seed, x, z))

\* --------------------------------------------------------- Chunk.generate
\* the voxel written at height y of a column of terrain height h (h in
\* 1/HeightScale): the if / else-if chain of the fill loop
ColumnBlock(h, y) ==
  IF y = 0 THEN BEDROCK
  ELSE IF y * HeightScale < h - 4 * HeightScale THEN STONE
  ELSE IF y * HeightScale < h - 1 * HeightScale THEN DIRT
  ELSE IF y = FloorDiv(h - 1 * HeightScale, HeightScale) THEN
         (IF h < 12 * HeightScale THEN SAND
          ELSE IF h > 24 * HeightScale THEN STONE
          ELSE GRASS)
  ELSE IF y < 10 /\ h < 10 * HeightScale THEN WATER
  ELSE AIR

\* TreeFits without the test of the height
TreeFitsAnyHeight(size, height, x, y, z) ==
  ~(x < 2 \/ x >= size - 2 \/ z < 2 \/ z >= size - 2)

\* the space test of generateTree, negated: the tree is placed
TreeFits(size, height, x, y, z) ==
  ~(x < 2 \/ x >= size - 2 \/ z < 2 \/ z >= size - 2 \/ y + 5 >= height)

\* the voxels the trunk loop of generateTree writes
TrunkCells(x, y, z, trunkHeight) ==
  { <<x, y + tY, z>> : tY \in 0 .. trunkHeight - 1 }

\* the voxels the leaf loops of generateTree write: Math.sqrt(d) <= 2 holds
\* iff d <= 4
LeafCells(size, height, x, y, z, trunkHeight) ==
  { <<x + l[1], y + trunkHeight + l[2], z + l[3]>> :
      l \in { m \in (-2 .. 2) \X (-2 .. 2) \X (-2 .. 2) :
                /\ m[1] * m[1] + m[2] * m[2] + m[3] * m[3] <= 2 * 2
                /\ x + m[1] >= 0 /\ x + m[1] < size
                /\ y + trunkHeight + m[2] >= 0
                /\ y + trunkHeight + m[2] < height
                /\ z + m[3] >= 0 /\ z + m[3] < size
                /\ ~(m[1] = 0 /\ m[3] = 0 /\ m[2] < 0) } }

\* Chunk.generateTree(x, y, z) with the drawn trunk height on the voxel array
\* of a chunk of the given size and height: the trunk, then the leaves
GenerateTreeIn(size, height, blocks, x, y, z, trunkHeight) ==
  IF ~TreeFits(size, height, x, y, z) THEN blocks
  ELSE LET trunk == TrunkCells(x, y, z, trunkHeight)
           leaves == LeafCells(size, height, x, y, z, trunkHeight)
       IN  [c \in DOMAIN blocks |->
              IF c \in leaves THEN LEAVES
              ELSE IF c \in trunk THEN WOOD
              ELSE blocks[c]]

\* Chunk.generateTree(x, y, z) with the drawn trunk height
GenerateTree(blocks, x, y, z, trunkHeight) ==
  GenerateTreeIn(CHUNK_SIZE, WORLD_HEIGHT, blocks, x, y, z, trunkHeight)

(***************************************************************************)
(* The column loop of Chunk.generate for a chunk of the given size and     *)
(* height, from column number i on (x outer, z inner): fill the column,    *)
(* then roll for a tree on a grass surface.  g is the record of the voxel  *)
(* array blocks and of trees, the calls of generateTree made so far in     *)
(* order, each with the outcome of its space test.  heightAt gives getTerrainHeight of each column, rolls the       *)
(* columns at which Math.random() < 0.02 holds, trunkAt the trunk height   *)
(* drawn by a tree at each column.  (g.blocks = <<>> never holds: the test *)
(* has the voxel array evaluated after every column and not as one nested  *)
(* expression at the end.)                                                 *)
(***************************************************************************)
RECURSIVE GenerateColumnsIn(_, _, _, _, _, _, _)
GenerateColumnsIn(size, height, g, heightAt, rolls, trunkAt, i) ==
  IF i >= size * size \/ g.blocks = <<>> THEN g
  ELSE
    LET x == i \div size
        z == i % size
        h == heightAt[<<x, z>>]
        filled == [c \in DOMAIN g.blocks |->
                     IF c[1] = x /\ c[3] = z THEN ColumnBlock(h, c[2])
                     ELSE g.blocks[c]]
        surfaceY == FloorDiv(h - 1 * HeightScale, HeightScale)
        y == FloorDiv(h, HeightScale)
        t == trunkAt[<<x, z>>]
        planted ==
          IF filled[<<x, surfaceY, z>>] = GRASS /\ <<x, z>> \in rolls
          THEN [blocks |-> GenerateTreeIn(size, height, filled, x, y, z, t),
                trees |-> Append(g.trees,
                                 [x |-> x, y |-> y, z |-> z, trunkHeight |-> t,
                                  placed |-> TreeFits(size, height, x, y, z)])]
          ELSE [blocks |-> filled, trees |-> g.trees]
    IN  GenerateColumnsIn(size, height, planted, heightAt, rolls, trunkAt, i + 1)

\* the column loop of Chunk.generate for chunk (chunkX, chunkZ) of the world,
\* whose Chunk drew r
GenerateColumns(blocks, chunkX, chunkZ, r, i) ==
  LET columns == (0 .. CHUNK_SIZE - 1) \X (0 .. CHUNK_SIZE - 1)
  IN  GenerateColumnsIn(
        CHUNK_SIZE, WORLD_HEIGHT, [blocks |-> blocks, trees |-> <<>>],
        [c \in columns |-> GetTerrainHeight(r, chunkX * CHUNK_SIZE + c[1],
                                            chunkZ * CHUNK_SIZE + c[2])],
        { c \in columns : TreeRoll(r, c[1], c[2]) },
        [c \in columns |-> TrunkHeight(r)], i).blocks

\* the voxel array of chunk (chunkX, chunkZ) when Chunk.generate has filled it
GenerateBlocks(chunkX, chunkZ, r) ==
  GenerateColumns(EmptyBlocks, chunkX, chunkZ, r, 0)

\* ------------------------------------------------------ reads of the world
\* Chunk.getBlock on the voxel array of one chunk
ChunkGetBlock(blocks, x, y, z) ==
  IF x < 0 \/ x >= CHUNK_SIZE \/ y < 0 \/ y >= WORLD_HEIGHT
     \/ z < 0 \/ z >= CHUNK_SIZE
  THEN AIR
  ELSE blocks[<<x, y, z>>]

\* World.getBlock: Math.floor(x / CHUNK_SIZE)
GetBlockChunk(v) == FloorDiv(v, CHUNK_SIZE)

\* GetBlockLocal without the adjustment of a negative remainder
GetBlockLocalUnadjusted(v) == JsRem(v, CHUNK_SIZE)

\* World.getBlock: Math.floor(x % CHUNK_SIZE), then the adjustment of a
\* negative remainder
GetBlockLocal(v) ==
  LET local == JsRem(v, CHUNK_SIZE)
  IN  IF local < 0 THEN local + CHUNK_SIZE ELSE local

\* WorldGetBlock with the height clamped into the world instead of the early
\* return of AIR
WorldGetBlockClampedY(chunks, x, y, z) ==
  LET chunkKey == Key(GetBlockChunk(x), GetBlockChunk(z))
  IN  IF chunkKey \notin DOMAIN chunks THEN AIR
      ELSE ChunkGetBlock(chunks[chunkKey], GetBlockLocal(x),
                         Max(0, Min(WORLD_HEIGHT - 1, y)), GetBlockLocal(z))

\* World.getBlock(x, y, z) in the chunk map chunks
WorldGetBlock(chunks, x, y, z) ==
  IF y < 0 \/ y >= WORLD_HEIGHT THEN AIR
  ELSE LET chunkKey == Key(GetBlockChunk(x), GetBlockChunk(z))
       IN  IF chunkKey \notin DOMAIN chunks THEN AIR
           ELSE ChunkGetBlock(chunks[chunkKey],
                              GetBlockLocal(x), y, GetBlockLocal(z))

\* ------------------------------------------------------------ Chunk meshing
\* the directions array of Chunk.updateMesh, by face index
Directions ==
  [i \in 0 .. 5 |->
     CASE i = 0 -> <<1, 0, 0>>
       [] i = 1 -> <<-1, 0, 0>>
       [] i = 2 -> <<0, 1, 0>>
       [] i = 3 -> <<0, -1, 0>>
       [] i = 4 -> <<0, 0, 1>>
       [] i = 5 -> <<0, 0, -1>>]

\* Chunk.isFaceVisible for a chunk with the voxel array blocks whose world
\* reference is null (no setWorld call was made)
IsFaceVisibleDetached(blocks, x, y, z, dx, dy, dz) ==
  LET nx == x + dx
      ny == y + dy
      nz == z + dz
  IN  IF nx < 0 \/ nx >= CHUNK_SIZE \/ ny < 0 \/ ny >= WORLD_HEIGHT
         \/ nz < 0 \/ nz >= CHUNK_SIZE
      THEN TRUE
      ELSE
        LET adjacentType == blocks[<<nx, ny, nz>>]
            currentType == blocks[<<x, y, z>>]
        IN  IF adjacentType = AIR THEN TRUE
            ELSE IF currentType # adjacentType
                    /\ currentType \in TransparentKinds
                    /\ adjacentType \in TransparentKinds
            THEN TRUE
            ELSE currentType # adjacentType /\ adjacentType \in TransparentKinds

\* IsFaceVisible that shows the face towards every transparent neighbour
\* beyond the chunk edge, one of the voxel's own kind included
IsFaceVisibleSameKind(chunks, key, x, y, z, dx, dy, dz) ==
  LET blocks == chunks[key]
      nx == x + dx
      ny == y + dy
      nz == z + dz
  IN  IF nx < 0 \/ nx >= CHUNK_SIZE \/ ny < 0 \/ ny >= WORLD_HEIGHT
         \/ nz < 0 \/ nz >= CHUNK_SIZE
      THEN
        LET adjacentBlockType ==
              WorldGetBlock(chunks, key[1] * CHUNK_SIZE + x + dx, ny,
                            key[2] * CHUNK_SIZE + z + dz)
        IN  adjacentBlockType = AIR \/ adjacentBlockType \in TransparentKinds
      ELSE IsFaceVisibleDetached(blocks, x, y, z, dx, dy, dz)

\* Chunk.isFaceVisible for the chunk at key, whose world reference is set
\* (World.generateChunk calls setWorld before generate)
IsFaceVisible(chunks, key, x, y, z, dx, dy, dz) ==
  LET blocks == chunks[key]
      nx == x + dx
      ny == y + dy
      nz == z + dz
  IN  IF nx < 0 \/ nx >= CHUNK_SIZE \/ ny < 0 \/ ny >= WORLD_HEIGHT
         \/ nz < 0 \/ nz >= CHUNK_SIZE
      THEN
        LET worldX == key[1] * CHUNK_SIZE + x
            worldZ == key[2] * CHUNK_SIZE + z
            adjacentBlockType == WorldGetBlock(chunks, worldX + dx, ny, worldZ + dz)
            currentBlockType == blocks[<<x, y, z>>]
        IN  IF adjacentBlockType = AIR THEN TRUE
            ELSE IF currentBlockType # adjacentBlockType
                    /\ adjacentBlockType \in TransparentKinds
            THEN TRUE
            ELSE FALSE
      ELSE
        LET adjacentType == blocks[<<nx, ny, nz>>]
            currentType == blocks[<<x, y, z>>]
        IN  IF adjacentType = AIR THEN TRUE
            ELSE IF currentType # adjacentType
                    /\ currentType \in TransparentKinds
                    /\ adjacentType \in TransparentKinds
            THEN TRUE
            ELSE currentType # adjacentType /\ adjacentType \in TransparentKinds

\* A face of a mesh: <<kind, face index, x, y, z>>, the quad that updateMesh
\* puts into the batch `${blockType}_${i}` for the voxel at local (x, y, z).

\* Chunk.updateMesh for the chunk at key: the faces of the rebuilt mesh
UpdateMesh(chunks, key) ==
  LET blocks == chunks[key]
  IN  { <<blocks[p[1]], p[2], p[1][1], p[1][2], p[1][3]>> :
          p \in { q \in LocalCells \X (0 .. 5) :
                    /\ blocks[q[1]] # AIR
                    /\ IsFaceVisible(chunks, key, q[1][1], q[1][2], q[1][3],
                                     Directions[q[2]][1], Directions[q[2]][2],
                                     Directions[q[2]][3]) } }

\* ----------------------------------------------------- Chunk mesh geometry
(***************************************************************************)
(* The children of Chunk.mesh in full: a sequence of meshes in the order   *)
(* updateMesh adds them, each the record                                   *)
(*   blockType, faceIndex : parsed from the batch key `${blockType}_${i}`  *)
(*   positions : the vertices, each <<x, y, z>> in half voxels             *)
(*   normals   : one normal per vertex                                     *)
(*   indices   : the index buffer                                          *)
(* The source keeps positions and normals flat, three numbers per vertex;  *)
(* here a vertex is one element, so positions.length / 3 is Len(positions).*)
(* The texture coordinates and the material are left out.                  *)
(***************************************************************************)
\* the batch key `${blockType}_${i}`; two keys are equal iff kind and face
\* index are
GeoKey(blockType, i) == <<blockType, i>>

\* tx, ty, tz of updateMesh after the scaling by 0.5, in half voxels
FaceTangent(i) ==
  IF Directions[i][2] # 0 THEN <<1, 0, 0>>
  ELSE IF Directions[i][1] # 0 THEN <<0, 0, 1>>
  ELSE <<1, 0, 0>>

\* bx, by, bz of updateMesh after the scaling by 0.5, in half voxels
FaceBitangent(i) ==
  IF Directions[i][2] # 0 THEN <<0, 0, 1>>
  ELSE IF Directions[i][1] # 0 THEN <<0, 1, 0>>
  ELSE <<0, 1, 0>>

\* fx, fy, fz of updateMesh: the centre of face i of the voxel at (x, y, z)
FaceCentre(x, y, z, i) ==
  <<2 * x + 1 + Directions[i][1], 2 * y + 1 + Directions[i][2],
    2 * z + 1 + Directions[i][3]>>

\* the four vertices pushed to geo.positions for face i of the voxel
FacePositions(x, y, z, i) ==
  LET f == FaceCentre(x, y, z, i)
      t == FaceTangent(i)
      b == FaceBitangent(i)
      dy == Directions[i][2]
  IN  IF dy > 0
      THEN << <<f[1] - t[1] - b[1], f[2], f[3] - t[3] - b[3]>>,
              <<f[1] + t[1] - b[1], f[2], f[3] + t[3] - b[3]>>,
              <<f[1] + t[1] + b[1], f[2], f[3] + t[3] + b[3]>>,
              <<f[1] - t[1] + b[1], f[2], f[3] - t[3] + b[3]>> >>
      ELSE IF dy < 0
      THEN << <<f[1] - t[1] - b[1], f[2], f[3] - t[3] - b[3]>>,
              <<f[1] - t[1] + b[1], f[2], f[3] - t[3] + b[3]>>,
              <<f[1] + t[1] + b[1], f[2], f[3] + t[3] + b[3]>>,
              <<f[1] + t[1] - b[1], f[2], f[3] + t[3] - b[3]>> >>
      ELSE << <<f[1] - t[1] - b[1], f[2] - t[2] - b[2], f[3] - t[3] - b[3]>>,
              <<f[1] + t[1] - b[1], f[2] + t[2] - b[2], f[3] + t[3] - b[3]>>,
              <<f[1] + t[1] + b[1], f[2] + t[2] + b[2], f[3] + t[3] + b[3]>>,
              <<f[1] - t[1] + b[1], f[2] - t[2] + b[2], f[3] - t[3] + b[3]>> >>

\* the four normals pushed to geo.normals for face i
FaceNormals(i) ==
  LET d == Directions[i]
      n == IF d[1] # 0 THEN <<d[1], 0, 0>>
           ELSE IF d[2] # 0 THEN <<0, d[2], 0>>
           ELSE <<0, 0, d[3]>>
  IN  <<n, n, n, n>>

\* the six indices pushed to geo.indices for face i at vertex offset vOffset
FaceIndices(i, vOffset) ==
  IF Directions[i][2] > 0
  THEN <<vOffset, vOffset + 1, vOffset + 2, vOffset, vOffset + 2, vOffset + 3>>
  ELSE IF Directions[i][2] < 0
  THEN <<vOffset, vOffset + 3, vOffset + 2, vOffset, vOffset + 2, vOffset + 1>>
  ELSE <<vOffset, vOffset + 1, vOffset + 2, vOffset, vOffset + 2, vOffset + 3>>

\* the body of `if (this.isFaceVisible(...))`: the quad of face i of the
\* voxel at (x, y, z) appended to the batch of its key, which is created
\* at the end of blockFaceGeometries when the map does not have it;
\* geometries is the map as the sequence of its entries in insertion order
AddFace(geometries, blockType, x, y, z, i) ==
  LET geoKey == GeoKey(blockType, i)
      has == \E j \in 1 .. Len(geometries) : geometries[j].geoKey = geoKey
      withKey == IF has THEN geometries
                 ELSE Append(geometries,
                             [geoKey |-> geoKey, positions |-> <<>>,
                              normals |-> <<>>, indices |-> <<>>])
      at == CHOOSE j \in 1 .. Len(withKey) : withKey[j].geoKey = geoKey
      geo == withKey[at]
      vOffset == Len(geo.positions)
  IN  [withKey EXCEPT
         ![at] = [geoKey |-> geoKey,
                  positions |-> geo.positions \o FacePositions(x, y, z, i),
                  normals |-> geo.normals \o FaceNormals(i),
                  indices |-> geo.indices \o FaceIndices(i, vOffset)]]

\* the loop of updateMesh over the face index, from face i on, for the voxel
\* at (x, y, z). (Len(geometries) < 0 never holds: the test has the batches
\* evaluated at every step of the loop and not as one nested expression at
\* its end.)
RECURSIVE DirectionLoop(_, _, _, _, _, _, _)
DirectionLoop(chunks, key, geometries, x, y, z, i) ==
  IF i >= 6 \/ Len(geometries) < 0 THEN geometries
  ELSE IF IsFaceVisible(chunks, key, x, y, z, Directions[i][1],
                        Directions[i][2], Directions[i][3])
  THEN DirectionLoop(chunks, key,
                     AddFace(geometries, chunks[key][<<x, y, z>>], x, y, z, i),
                     x, y, z, i + 1)
  ELSE DirectionLoop(chunks, key, geometries, x, y, z, i + 1)

\* the loops of updateMesh over x, y and z, flattened: step n is the voxel
\* number n in loop order (x outermost, z innermost); air is skipped
RECURSIVE FaceLoop(_, _, _, _)
FaceLoop(chunks, key, geometries, n) ==
  IF n >= CHUNK_SIZE * WORLD_HEIGHT * CHUNK_SIZE \/ Len(geometries) < 0
  THEN geometries
  ELSE
    LET z == n % CHUNK_SIZE
        y == (n \div CHUNK_SIZE) % WORLD_HEIGHT
        x == n \div (CHUNK_SIZE * WORLD_HEIGHT)
    IN  IF chunks[key][<<x, y, z>>] = AIR
        THEN FaceLoop(chunks, key, geometries, n + 1)
        ELSE FaceLoop(chunks, key,
                      DirectionLoop(chunks, key, geometries, x, y, z, 0),
                      n + 1)

\* blockFaceGeometries.forEach: one mesh per batch that has positions, added
\* to the group in the insertion order of the map
BatchMeshes(geometries) ==
  LET filled == SelectSeq(geometries, LAMBDA geo : Len(geo.positions) # 0)
  IN  [j \in 1 .. Len(filled) |->
         [blockType |-> filled[j].geoKey[1],
          faceIndex |-> filled[j].geoKey[2],
          positions |-> filled[j].positions,
          normals |-> filled[j].normals,
          indices |-> filled[j].indices]]

\* UpdateGeometry without this.mesh.clear(): the new meshes are added after
\* the ones the group holds
UpdateGeometryNoClear(children, chunks, key) ==
  children \o BatchMeshes(FaceLoop(chunks, key, <<>>, 0))

\* Chunk.updateMesh on the chunk at key whose group holds children: the
\* children of the group when updateMesh returns
UpdateGeometry(children, chunks, key) ==
  LET cleared == <<>>
  IN  cleared \o BatchMeshes(FaceLoop(chunks, key, <<>>, 0))

\* ------------------------------------------------------------- the World
(***************************************************************************)
(* A world value w is the record                                           *)
(*   chunks : chunk key -> voxel array     (World.chunks, with Chunk.blocks)*)
(*   order  : the keys of World.chunks in insertion order (a Map iterates  *)
(*            in that order)                                               *)
(*   mesh   : chunk key -> set of faces    (the children of Chunk.mesh, as *)
(*            the faces they draw)                                         *)
(*   geometry : chunk key -> sequence of meshes (the children of           *)
(*            Chunk.mesh with their buffers)                               *)
(*   scene  : the keys of the chunks whose group is a child of the scene   *)
(*   orphans : chunk key -> number of geometry buffers and materials the   *)
(*            chunk has created and not disposed that no child of its      *)
(*            group holds any more                                         *)
(*   released : the keys of the chunks whose dispose() has disposed the    *)
(*            geometry and material of the children the group holds        *)
(*   calls  : the calls of Chunk.generate, Chunk.updateMesh and            *)
(*            Chunk.dispose made so far by the running operation, in order *)
(***************************************************************************)
EmptyWorld ==
  [chunks |-> [k \in {} |-> EmptyBlocks],
   order  |-> <<>>,
   mesh   |-> [k \in {} |-> {}],
   geometry |-> [k \in {} |-> <<>>],
   scene  |-> {},
   orphans |-> [k \in {} |-> 0],
   released |-> {},
   calls  |-> <<>>]

\* the kinds for which updateMesh creates a MeshLambertMaterial in
\* blockMaterials: every kind but air that a voxel of the chunk holds
BlockMaterials(blocks) == { blocks[c] : c \in LocalCells } \ {AIR}

\* the buffers and materials a group with these children holds: each child
\* has its own BufferGeometry and its own clone of the kind's material
Held(children) == 2 * Len(children)

\* the buffers and materials that a call of updateMesh on the chunk at key
\* leaves live without a holder: what the children removed by
\* this.mesh.clear() hold, unless dispose() has disposed it, and the
\* materials of blockMaterials, which are only cloned
Orphaned(w, key) ==
  (IF key \in w.released THEN 0 ELSE Held(w.geometry[key]))
    + Cardinality(BlockMaterials(w.chunks[key]))

\* a call of Chunk.updateMesh on the loaded chunk at key
RebuildChunk(w, key) ==
  [w EXCEPT !.mesh[key] = UpdateMesh(w.chunks, key),
            !.geometry[key] = UpdateGeometry(@, w.chunks, key),
            !.orphans[key] = @ + Orphaned(w, key),
            !.released = @ \ {key},
            !.calls = Append(@, <<"updateMesh", key>>)]

\* World.generateChunk(chunkX, chunkZ); r is the random draw of the new Chunk
GenerateChunk(w, chunkX, chunkZ, r) ==
  LET chunkKey == Key(chunkX, chunkZ)
  IN  IF chunkKey \in DOMAIN w.chunks THEN w
      ELSE
        LET chunks1 == (chunkKey :> GenerateBlocks(chunkX, chunkZ, r)) @@ w.chunks
        IN  [chunks |-> chunks1,
             order  |-> Append(w.order, chunkKey),
             mesh   |-> (chunkKey :> UpdateMesh(chunks1, chunkKey)) @@ w.mesh,
             geometry |-> (chunkKey :> UpdateGeometry(<<>>, chunks1, chunkKey))
                            @@ w.geometry,
             scene  |-> w.scene \cup {chunkKey},
             orphans |-> (chunkKey :> Cardinality(BlockMaterials(chunks1[chunkKey])))
                           @@ w.orphans,
             released |-> w.released \ {chunkKey},
             calls  |-> w.calls \o << <<"generate", chunkKey>>,
                                      <<"updateMesh", chunkKey>> >>]

\* the two nested loops of World.generateInitialChunks and of World.update
\* visit the square around (centerX, centerZ) with x outer and z inner;
\* SquareKey is the i-th key visited, i from 0
SquareWidth == 2 * RENDER_DISTANCE + 1

SquareKey(centerX, centerZ, i) ==
  Key(centerX - RENDER_DISTANCE + (i \div SquareWidth),
      centerZ - RENDER_DISTANCE + (i % SquareWidth))

RECURSIVE GenerateInitialFrom(_, _, _)
GenerateInitialFrom(w, r, i) ==
  IF i >= SquareWidth * SquareWidth THEN w
  ELSE LET k == SquareKey(0, 0, i)
       IN  GenerateInitialFrom(GenerateChunk(w, k[1], k[2], r), r, i + 1)

\* World.generateInitialChunks
GenerateInitialChunks(w, r) == GenerateInitialFrom(w, r, 0)

\* ------------------------------------------------------------ World.setBlock
\* ChunkSetBlock that rebuilds the mesh before it stores the new kind
ChunkSetBlockRebuildFirst(w, key, x, y, z, type) ==
  IF x < 0 \/ x >= CHUNK_SIZE \/ y < 0 \/ y >= WORLD_HEIGHT
     \/ z < 0 \/ z >= CHUNK_SIZE
  THEN w
  ELSE [RebuildChunk(w, key) EXCEPT !.chunks[key][<<x, y, z>>] = type]

\* ChunkSetBlock that returns without a rebuild when the voxel holds the
\* kind already
ChunkSetBlockSkipsSame(w, key, x, y, z, type) ==
  IF x < 0 \/ x >= CHUNK_SIZE \/ y < 0 \/ y >= WORLD_HEIGHT
     \/ z < 0 \/ z >= CHUNK_SIZE
  THEN w
  ELSE IF w.chunks[key][<<x, y, z>>] = type THEN w
  ELSE RebuildChunk([w EXCEPT !.chunks[key][<<x, y, z>>] = type], key)

\* Chunk.setBlock on the chunk at key
ChunkSetBlock(w, key, x, y, z, type) ==
  IF x < 0 \/ x >= CHUNK_SIZE \/ y < 0 \/ y >= WORLD_HEIGHT
     \/ z < 0 \/ z >= CHUNK_SIZE
  THEN w
  ELSE RebuildChunk([w EXCEPT !.chunks[key][<<x, y, z>>] = type], key)

\* ------------------------------------------------------------ Chunk.dispose
\* ChunkDispose that also takes the first child out of the group
ChunkDisposeDropsChild(w, key) ==
  [w EXCEPT !.scene = @ \ {key},
            !.released = @ \cup {key},
            !.geometry[key] = IF @ = <<>> THEN @ ELSE Tail(@),
            !.calls = Append(@, <<"dispose", key>>)]

\* Chunk.dispose on the chunk at key: scene.remove(this.mesh) takes the group
\* out of the scene if it is there, and the traversal disposes the geometry
\* and the material of every child; the children stay in the group, and a
\* dispose() of a geometry or material that is disposed already does nothing
\* more
ChunkDispose(w, key) ==
  [w EXCEPT !.scene = @ \ {key},
            !.released = @ \cup {key},
            !.calls = Append(@, <<"dispose", key>>)]

\* World.setBlock: Math.floor(x / CHUNK_SIZE)
SetBlockChunk(v) == FloorDiv(v, CHUNK_SIZE)

\* SetBlockLocal without the adjustment of a negative remainder
SetBlockLocalUnadjusted(v) == JsRem(v, CHUNK_SIZE)

\* World.setBlock: Math.floor(x % CHUNK_SIZE), then the adjustment of a
\* negative remainder
SetBlockLocal(v) ==
  LET local == JsRem(v, CHUNK_SIZE)
  IN  IF local < 0 THEN local + CHUNK_SIZE ELSE local

\* World.updateNeighborChunksIfNeeded: Math.floor(x % CHUNK_SIZE), which is
\* compared with 0 and CHUNK_SIZE - 1 as it is
NeighborLocal(v) == JsRem(v, CHUNK_SIZE)

\* World.updateNeighborChunksIfNeeded: Math.floor(x / CHUNK_SIZE)
NeighborChunk(v) == FloorDiv(v, CHUNK_SIZE)

\* the directions array of World.updateNeighborChunksIfNeeded
NeighborDirections == << <<-1, 0>>, <<1, 0>>, <<0, -1>>, <<0, 1>> >>

RECURSIVE UpdateNeighborsFrom(_, _, _, _)
UpdateNeighborsFrom(w, chunkX, chunkZ, i) ==
  IF i > Len(NeighborDirections) THEN w
  ELSE LET neighborKey == Key(chunkX + NeighborDirections[i][1],
                              chunkZ + NeighborDirections[i][2])
           w1 == IF neighborKey \in DOMAIN w.chunks
                 THEN RebuildChunk(w, neighborKey)
                 ELSE w
       IN  UpdateNeighborsFrom(w1, chunkX, chunkZ, i + 1)

\* UpdateNeighborChunksIfNeeded without the test for a chunk boundary
UpdateNeighborChunksAlways(w, x, y, z) ==
  UpdateNeighborsFrom(w, NeighborChunk(x), NeighborChunk(z), 1)

\* World.updateNeighborChunksIfNeeded(x, y, z)
UpdateNeighborChunksIfNeeded(w, x, y, z) ==
  LET localX == NeighborLocal(x)
      localZ == NeighborLocal(z)
  IN  IF localX = 0 \/ localX = CHUNK_SIZE - 1
         \/ localZ = 0 \/ localZ = CHUNK_SIZE - 1
      THEN UpdateNeighborsFrom(w, NeighborChunk(x), NeighborChunk(z), 1)
      ELSE w

\* WorldSetBlock without the early return for a height out of range
WorldSetBlockNoHeightCheck(w, x, y, z, type) ==
  LET chunkKey == Key(SetBlockChunk(x), SetBlockChunk(z))
  IN  IF chunkKey \notin DOMAIN w.chunks THEN w
      ELSE UpdateNeighborChunksIfNeeded(
             ChunkSetBlock(w, chunkKey, SetBlockLocal(x), y,
                           SetBlockLocal(z), type),
             x, y, z)

\* World.setBlock(x, y, z, type)
WorldSetBlock(w, x, y, z, type) ==
  IF y < 0 \/ y >= WORLD_HEIGHT THEN w
  ELSE LET chunkKey == Key(SetBlockChunk(x), SetBlockChunk(z))
       IN  IF chunkKey \notin DOMAIN w.chunks THEN w
           ELSE UpdateNeighborChunksIfNeeded(
                  ChunkSetBlock(w, chunkKey, SetBlockLocal(x), y,
                                SetBlockLocal(z), type),
                  x, y, z)

\* -------------------------------------------------------------- World.update
\* World.update: Math.floor(playerPos.x / CHUNK_SIZE); the model takes the
\* integer part of the position, which has the same floor
PlayerChunk(v) == FloorDiv(v, CHUNK_SIZE)

\* requiredChunks of World.update for the player chunk (cx, cz)
RequiredChunks(cx, cz) ==
  { SquareKey(cx, cz, i) : i \in 0 .. SquareWidth * SquareWidth - 1 }

\* chunksToLoad of World.update, in the order of the push calls
ChunksToLoad(w, cx, cz) ==
  SelectSeq([i \in 1 .. SquareWidth * SquareWidth |-> SquareKey(cx, cz, i - 1)],
            LAMBDA k : k \notin DOMAIN w.chunks)

\* the chunks toLoad[i..] inserted into the map with their generated arrays,
\* no mesh built
RECURSIVE FillFrom(_, _, _, _)
FillFrom(w, toLoad, r, i) ==
  IF i > Len(toLoad) THEN w
  ELSE LET k == Key(toLoad[i][1], toLoad[i][2])
       IN  FillFrom([w EXCEPT
                       !.chunks = (k :> GenerateBlocks(k[1], k[2], r)) @@ @,
                       !.order = Append(@, k),
                       !.mesh = (k :> {}) @@ @,
                       !.geometry = (k :> <<>>) @@ @,
                       !.scene = @ \cup {k},
                       !.orphans = (k :> 0) @@ @,
                       !.calls = Append(@, <<"generate", k>>)],
                    toLoad, r, i + 1)

\* the meshes of the chunks toLoad[i..] built one after the other
RECURSIVE MeshFrom(_, _, _)
MeshFrom(w, toLoad, i) ==
  IF i > Len(toLoad) THEN w
  ELSE MeshFrom(RebuildChunk(w, Key(toLoad[i][1], toLoad[i][2])), toLoad, i + 1)

\* LoadFrom that fills the voxel arrays of all the chunks to load before it
\* builds the first mesh
LoadFromBlocksFirst(w, toLoad, r, i) ==
  MeshFrom(FillFrom(w, toLoad, r, i), toLoad, i)

\* chunksToLoad.forEach(generateChunk) from index i on
RECURSIVE LoadFrom(_, _, _, _)
LoadFrom(w, toLoad, r, i) ==
  IF i > Len(toLoad) THEN w
  ELSE LoadFrom(GenerateChunk(w, toLoad[i][1], toLoad[i][2], r), toLoad, r, i + 1)

\* UnloadOld that disposes the chunks outside required and leaves them in
\* the map
UnloadOldKeepsEntries(w, required) ==
  LET gone == SelectSeq(w.order, LAMBDA k : k \notin required)
  IN  [w EXCEPT !.calls = @ \o [i \in 1 .. Len(gone) |-> <<"dispose", gone[i]>>]]

\* UnloadOld that deletes the chunks outside required from the map and does
\* not dispose them
UnloadOldNoDispose(w, required) ==
  LET kept == { k \in DOMAIN w.chunks : k \in required }
  IN  [chunks |-> [k \in kept |-> w.chunks[k]],
       order  |-> SelectSeq(w.order, LAMBDA k : k \in required),
       mesh   |-> [k \in kept |-> w.mesh[k]],
       geometry |-> [k \in kept |-> w.geometry[k]],
       scene  |-> w.scene,
       orphans |-> [k \in kept |-> w.orphans[k]],
       released |-> w.released \cap kept,
       calls  |-> w.calls]

\* Chunk.dispose of every loaded chunk outside required, then deletion from
\* the map: the forEach over this.chunks, in insertion order
UnloadOld(w, required) ==
  LET gone == SelectSeq(w.order, LAMBDA k : k \notin required)
      kept == { k \in DOMAIN w.chunks : k \in required }
  IN  [chunks |-> [k \in kept |-> w.chunks[k]],
       order  |-> SelectSeq(w.order, LAMBDA k : k \in required),
       mesh   |-> [k \in kept |-> w.mesh[k]],
       geometry |-> [k \in kept |-> w.geometry[k]],
       scene  |-> w.scene \cap kept,
       orphans |-> [k \in kept |-> w.orphans[k]],
       released |-> w.released \cap kept,
       calls  |-> w.calls \o [i \in 1 .. Len(gone) |-> <<"dispose", gone[i]>>]]

\* WorldUpdate that disposes every loaded chunk and generates the whole
\* required square anew
WorldUpdateReload(w, px, pz, r) ==
  LET cx == PlayerChunk(px)
      cz == PlayerChunk(pz)
      w0 == UnloadOld(w, {})
  IN  LoadFrom(w0, ChunksToLoad(w0, cx, cz), r, 1)

\* World.update(playerPos) with playerPos = (px, _, pz)
WorldUpdate(w, px, pz, r) ==
  LET cx == PlayerChunk(px)
      cz == PlayerChunk(pz)
  IN  UnloadOld(LoadFrom(w, ChunksToLoad(w, cx, cz), r, 1), RequiredChunks(cx, cz))

\* ------------------------------------------------------------ World.raycast
\* Positions and distances are counted in 1/PosScale of a voxel edge.  The
\* rays of the model run along one axis from the coordinates RayCoords, or
\* along (3, -4, 0), whose length is a whole number.
PosScale == 10 * 10

\* const step = 0.1
RayStep == PosScale \div 10

\* the coordinates a ray of the model can start from
RayCoords == {-50, 50, 150, 200, 250, 350}

\* the value null that World.raycast returns when nothing is hit
Null == [null |-> TRUE]

\* direction.length(), for the directions whose length is a whole number
VecLength(direction) ==
  LET sq == direction[1] * direction[1] + direction[2] * direction[2]
              + direction[3] * direction[3]
  IN  CHOOSE n \in 0 .. sq : n * n = sq

\* direction.clone().normalize(), in 1/PosScale; the zero vector stays the
\* zero vector (three.js divides by length() || 1)
Normalize(direction) ==
  LET length == VecLength(direction)
      len == IF length = 0 THEN 1 ELSE length
  IN  <<(direction[1] * PosScale) \div len, (direction[2] * PosScale) \div len,
        (direction[3] * PosScale) \div len>>

\* one component of ray.clone().multiplyScalar(step)
Scaled(c) == (c * RayStep) \div PosScale

\* maxSteps = maxDistance / step; the loop runs while i < maxSteps, which is
\* ceil(maxDistance / step) times
MaxSteps(maxDistance) == (maxDistance + RayStep - 1) \div RayStep

\* currentPos is a double that the loop advances by repeated addition of
\* ray * 0.1, and 0.1 is no binary fraction: where the exact sum is a whole
\* number the double can lie just below it, and its floor is one less.  The
\* triples <<c0, s, i>> list where that happens in IEEE-754 double
\* arithmetic, for a coordinate that starts at c0 and has had s (the ray
\* component times the step) added i times; for example 0.5 + 0.1 + 0.1 +
\* 0.1 + 0.1 + 0.1 = 0.9999999999999999.
RoundedDownCurrent ==
  { <<-50, 10, 5>>, <<-50, 10, 15>>, <<-50, -10, 15>>, <<-50, -10, 25>>,
    <<-50, -10, 35>>, <<50, 10, 5>>, <<50, 10, 45>>, <<50, -10, 25>>,
    <<50, -10, 35>>, <<50, -10, 45>>, <<150, 10, 35>>, <<150, 10, 45>>,
    <<150, -10, 5>>, <<150, -10, 15>>, <<150, -10, 25>>, <<150, -10, 35>>,
    <<150, -10, 45>>, <<200, 10, 30>>, <<200, 10, 40>>, <<200, 10, 50>>,
    <<200, -10, 10>>, <<200, -10, 20>>, <<200, -10, 30>>, <<200, -10, 40>>,
    <<200, -10, 50>>, <<250, 10, 25>>, <<250, 10, 35>>, <<250, 10, 45>>,
    <<250, -10, 5>>, <<250, -10, 15>>, <<250, -10, 25>>, <<250, -10, 35>>,
    <<250, -10, 45>>, <<350, 10, 15>>, <<350, 10, 25>>, <<350, 10, 35>>,
    <<350, 10, 45>>, <<350, -10, 5>>, <<350, -10, 15>>, <<350, -10, 25>>,
    <<350, -10, 35>>, <<350, -10, 45>>,
    <<96, -8, 12>>, <<96, -8, 37>>, <<200, -8, 25>>, <<200, -8, 50>>,
    <<200, 6, 50>>, <<350, 6, 25>> }

\* the same for previousPos = currentPos - ray * 0.1 in iteration i
RoundedDownPrevious ==
  { <<-50, 10, 6>>, <<-50, 10, 16>>, <<-50, -10, 16>>, <<-50, -10, 26>>,
    <<-50, -10, 36>>, <<50, 10, 6>>, <<50, 10, 46>>, <<50, -10, 26>>,
    <<50, -10, 36>>, <<50, -10, 46>>, <<150, 10, 36>>, <<150, 10, 46>>,
    <<150, -10, 6>>, <<150, -10, 16>>, <<150, -10, 26>>, <<150, -10, 36>>,
    <<150, -10, 46>>, <<200, 10, 31>>, <<200, 10, 41>>, <<200, -10, 11>>,
    <<200, -10, 21>>, <<200, -10, 31>>, <<200, -10, 41>>, <<250, 10, 26>>,
    <<250, 10, 36>>, <<250, 10, 46>>, <<250, -10, 6>>, <<250, -10, 16>>,
    <<250, -10, 26>>, <<250, -10, 36>>, <<250, -10, 46>>, <<350, 10, 6>>,
    <<350, 10, 16>>, <<350, 10, 26>>, <<350, 10, 36>>, <<350, 10, 46>>,
    <<350, -10, 6>>, <<350, -10, 16>>, <<350, -10, 26>>, <<350, -10, 36>>,
    <<350, -10, 46>>,
    <<96, -8, 13>>, <<96, -8, 38>>, <<200, -8, 26>>, <<350, 6, 26>> }

\* Math.floor(currentPos.x) in iteration i
FloorCurrent(c0, s, i) ==
  FloorDiv(c0 + s * i, PosScale)
    - (IF <<c0, s, i>> \in RoundedDownCurrent THEN 1 ELSE 0)

\* Math.floor(previousPos.x) in iteration i
FloorPrevious(c0, s, i) ==
  FloorDiv(c0 + s * (i - 1), PosScale)
    - (IF <<c0, s, i>> \in RoundedDownPrevious THEN 1 ELSE 0)

\* the loop of World.raycast from iteration i on
RECURSIVE RaycastFrom(_, _, _, _, _)
RaycastFrom(chunks, origin, ray, maxSteps, i) ==
  IF i >= maxSteps THEN Null
  ELSE
    LET x == FloorCurrent(origin[1], Scaled(ray[1]), i)
        y == FloorCurrent(origin[2], Scaled(ray[2]), i)
        z == FloorCurrent(origin[3], Scaled(ray[3]), i)
        blockType == WorldGetBlock(chunks, x, y, z)
    IN  IF blockType # AIR
        THEN [position  |-> <<x, y, z>>,
              normal    |-> <<FloorPrevious(origin[1], Scaled(ray[1]), i) - x,
                              FloorPrevious(origin[2], Scaled(ray[2]), i) - y,
                              FloorPrevious(origin[3], Scaled(ray[3]), i) - z>>,
              blockType |-> blockType]
        ELSE RaycastFrom(chunks, origin, ray, maxSteps, i + 1)

\* WorldRaycast that moves along the ray before it takes the first sample
WorldRaycastSkipOrigin(chunks, origin, direction, maxDistance) ==
  LET ray == Normalize(direction)
  IN  RaycastFrom(chunks, origin, ray, MaxSteps(maxDistance), 1)

\* World.raycast(origin, direction, maxDistance)
WorldRaycast(chunks, origin, direction, maxDistance) ==
  LET ray == Normalize(direction)
  IN  RaycastFrom(chunks, origin, ray, MaxSteps(maxDistance), 0)

\* ------------------------------------------------------------------ state
VARIABLES
  chunks,   \* World.chunks with each Chunk's blocks: key -> voxel array
  order,    \* insertion order of World.chunks
  mesh,     \* each loaded Chunk's mesh: key -> set of faces
  geometry, \* each loaded Chunk's mesh: key -> sequence of meshes
  scene,    \* the chunks whose mesh is a child of the scene
  orphans,  \* each loaded Chunk's live buffers and materials without holder
  released, \* the chunks whose children's buffers and materials are disposed
  tall,     \* a Chunk constructed on its own, with its own size and height
  calls,    \* generate / updateMesh / dispose calls of the last operation
  lastOp,   \* the last operation and its arguments
  nOps,     \* number of update and setBlock calls so far
  nEdits,   \* number of setBlock calls so far
  selectedBlock,  \* FirstPersonControls.selectedBlock: the last raycast result
  flyMode,        \* FirstPersonControls.flyMode
  moveUp,         \* FirstPersonControls.moveUp
  moveDown,       \* FirstPersonControls.moveDown
  canJump,        \* FirstPersonControls.canJump
  velocityY,      \* FirstPersonControls.velocity.y, in 1/VelocityScale
  landed          \* the last update() ended with a collision on the way down

\* the fields of FirstPersonControls, and what its last frame ended with
controlVars ==
  <<selectedBlock, flyMode, moveUp, moveDown, canJump, velocityY, landed>>

vars ==
  <<chunks, order, mesh, geometry, scene, orphans, released, calls, lastOp,
    nOps, nEdits, controlVars, tall>>

\* the field initialisers of FirstPersonControls
ControlsInit ==
  /\ selectedBlock = Null
  /\ flyMode = FALSE
  /\ moveUp = FALSE
  /\ moveDown = FALSE
  /\ canJump = FALSE
  /\ velocityY = 0
  /\ landed = FALSE

\* the world value held by the variables, with an empty call record
Current ==
  [chunks |-> chunks, order |-> order, mesh |-> mesh, geometry |-> geometry,
   scene |-> scene, orphans |-> orphans, released |-> released,
   calls |-> <<>>]

\* the variables take the world value w
Becomes(w) ==
  /\ chunks' = w.chunks
  /\ order' = w.order
  /\ mesh' = w.mesh
  /\ geometry' = w.geometry
  /\ scene' = w.scene
  /\ orphans' = w.orphans
  /\ released' = w.released
  /\ calls' = w.calls

\* ----------------------------------------------------------------- inputs
\* player positions: in the chunks on both sides of the origin, and further
\* away than the loaded square is wide
ObserverPositions ==
  { <<-1, -1>>, <<0, 0>>, <<(2 * RENDER_DISTANCE + 2) * CHUNK_SIZE, 0>> }

\* voxel coordinates of reads and writes: both sides of the origin, on and
\* off the chunk edges, inside and outside the vertical range
EditXs == {-CHUNK_SIZE, -1, 0, 1, CHUNK_SIZE - 1}
EditZs == {-1, 0, 1}
EditYs == {-1, 0, WORLD_HEIGHT - 1, WORLD_HEIGHT}
EditKinds == {AIR, STONE}

\* ------------------------------------------------------------------ actions
\* new World(scene): the constructor runs generateInitialChunks
Init ==
  \E r \in Randoms :
    LET w == GenerateInitialChunks(EmptyWorld, r)
    IN  /\ chunks = w.chunks
        /\ order = w.order
        /\ mesh = w.mesh
        /\ geometry = w.geometry
        /\ scene = w.scene
        /\ orphans = w.orphans
        /\ released = w.released
        /\ calls = w.calls
        /\ lastOp = [op |-> "new", x |-> 0, y |-> 0, z |-> 0, type |-> AIR]
        /\ nOps = 0
        /\ nEdits = 0
        /\ tall = Null
        /\ ControlsInit

\* World.update(playerPos)
Update(px, pz, r) ==
  /\ nOps < MaxOps
  /\ Becomes(WorldUpdate(Current, px, pz, r))
  /\ lastOp' = [op |-> "update", x |-> px, y |-> 0, z |-> pz, type |-> AIR]
  /\ nOps' = nOps + 1
  /\ UNCHANGED <<nEdits, controlVars, tall>>

\* World.setBlock(x, y, z, type)
SetBlock(x, y, z, type) ==
  /\ nOps < MaxOps
  /\ nEdits < MaxEdits
  /\ Becomes(WorldSetBlock(Current, x, y, z, type))
  /\ lastOp' = [op |-> "setBlock", x |-> x, y |-> y, z |-> z, type |-> type]
  /\ nOps' = nOps + 1
  /\ nEdits' = nEdits + 1
  /\ UNCHANGED <<controlVars, tall>>

Next ==
  \/ \E p \in ObserverPositions, r \in Randoms : Update(p[1], p[2], r)
  \/ \E x \in EditXs, y \in EditYs, z \in EditZs, type \in EditKinds :
       SetBlock(x, y, z, type)

Spec == Init /\ [][Next]_vars

\* ------------------------------------------------------------- type check
TypeOK ==
  /\ DOMAIN chunks = DOMAIN mesh
  /\ DOMAIN chunks = DOMAIN geometry
  /\ \A k \in DOMAIN chunks : chunks[k] \in [LocalCells -> BlockType]
  /\ nOps \in 0 .. MaxOps
  /\ nEdits \in 0 .. MaxEdits

\* ============================================================== the claims
\* voxel coordinates the claims read: two chunks on either side of the
\* origin, and every height from two below the world to one above it
ReadXZs == (-2 * CHUNK_SIZE) .. (2 * CHUNK_SIZE - 1)
ReadYs == -2 .. (WORLD_HEIGHT + 1)

\* the chunk coordinate floor(v / CHUNK_SIZE) and the floored-modulo local
\* coordinate of a world coordinate, as the specification defines them
OwnerCoord(v) == v \div CHUNK_SIZE
FlooredLocal(v) == v % CHUNK_SIZE
Owner(x, z) == <<OwnerCoord(x), OwnerCoord(z)>>

\* the chunks on which the last operation called updateMesh
Rebuilt == { calls[i][2] : i \in { j \in 1 .. Len(calls) : calls[j][1] = "updateMesh" } }

Abs(a) == IF a >= 0 THEN a ELSE -a

\* C1: when update(p) returns, the keys of the chunk map are exactly the
\* chunk coordinates within RENDER_DISTANCE of p's chunk on both axes.
C1_StreamingConvergence ==
  lastOp.op = "update" =>
    /\ \A k \in DOMAIN chunks :
         /\ Abs(k[1] - OwnerCoord(lastOp.x)) <= RENDER_DISTANCE
         /\ Abs(k[2] - OwnerCoord(lastOp.z)) <= RENDER_DISTANCE
    /\ \A cx \in (OwnerCoord(lastOp.x) - RENDER_DISTANCE) ..
                 (OwnerCoord(lastOp.x) + RENDER_DISTANCE),
          cz \in (OwnerCoord(lastOp.z) - RENDER_DISTANCE) ..
                 (OwnerCoord(lastOp.z) + RENDER_DISTANCE) :
         <<cx, cz>> \in DOMAIN chunks
    /\ DOMAIN mesh = DOMAIN chunks
    /\ { order[i] : i \in 1 .. Len(order) } = DOMAIN chunks
    /\ Len(order) = Cardinality(DOMAIN chunks)

\* an update that jumped further than the loaded square is wide, after an
\* update to the negative side
C1_Witness ==
  /\ lastOp.op = "update"
  /\ lastOp.x = (2 * RENDER_DISTANCE + 2) * CHUNK_SIZE
  /\ nOps >= 2
  /\ <<2 * RENDER_DISTANCE + 2, 0>> \in DOMAIN chunks
  /\ <<0, 0>> \notin DOMAIN chunks

\* ---------------------------------------------------------------- faces
\* the world coordinate of local cell c of the chunk at key k, moved one
\* step in direction i
NeighbourX(k, c, i) == k[1] * CHUNK_SIZE + c[1] + Directions[i][1]
NeighbourY(k, c, i) == c[2] + Directions[i][2]
NeighbourZ(k, c, i) == k[2] * CHUNK_SIZE + c[3] + Directions[i][3]

\* the neighbour of cell c of chunk k in direction i is a voxel of a loaded
\* chunk
NeighbourLoaded(k, c, i) ==
  /\ NeighbourY(k, c, i) \in 0 .. WORLD_HEIGHT - 1
  /\ Owner(NeighbourX(k, c, i), NeighbourZ(k, c, i)) \in DOMAIN chunks

\* the kind of that neighbour, read from the voxel arrays
NeighbourKind(k, c, i) ==
  chunks[Owner(NeighbourX(k, c, i), NeighbourZ(k, c, i))]
        [<<FlooredLocal(NeighbourX(k, c, i)), NeighbourY(k, c, i),
           FlooredLocal(NeighbourZ(k, c, i))>>]

\* the face-visibility rule of the specification for a voxel of kind cur
\* whose neighbour has kind adj
RuleVisible(cur, adj) ==
  \/ adj = AIR
  \/ adj \in TransparentKinds /\ adj # cur

\* the faces the rule gives chunk k for the current voxel data, a neighbour
\* outside every loaded chunk or outside the vertical range counting as air
RuleFaces(k) ==
  { <<chunks[k][p[1]], p[2], p[1][1], p[1][2], p[1][3]>> :
      p \in { q \in LocalCells \X (0 .. 5) :
                /\ chunks[k][q[1]] # AIR
                /\ RuleVisible(chunks[k][q[1]],
                               IF NeighbourLoaded(k, q[1], q[2])
                               THEN NeighbourKind(k, q[1], q[2])
                               ELSE AIR) } }

\* C2: whenever an operation returns, the faces held by every loaded chunk
\* are exactly the faces the visibility rule gives for the current voxel
\* data and the current chunk map.
C2_GeometryConsistent ==
  \A k \in DOMAIN chunks : mesh[k] = RuleFaces(k)

\* C3: two face-adjacent voxels of the same non-transparent kind that both
\* lie in loaded chunks never have their shared face in either mesh.
C3_NoSharedFace ==
  \A k \in DOMAIN chunks : \A c \in LocalCells : \A i \in 0 .. 5 :
    ( /\ chunks[k][c] # AIR
      /\ chunks[k][c] \notin TransparentKinds
      /\ NeighbourLoaded(k, c, i)
      /\ NeighbourKind(k, c, i) = chunks[k][c] )
    => <<chunks[k][c], i, c[1], c[2], c[3]>> \notin mesh[k]

\* C4: a non-transparent voxel of a loaded chunk whose neighbour is an air
\* voxel of a loaded chunk has its face towards that neighbour in its
\* chunk's mesh, and no mesh holds a face of an air voxel.
C4_SolidAgainstAir ==
  /\ \A k \in DOMAIN chunks : \A c \in LocalCells : \A i \in 0 .. 5 :
       ( /\ chunks[k][c] # AIR
         /\ chunks[k][c] \notin TransparentKinds
         /\ NeighbourLoaded(k, c, i)
         /\ NeighbourKind(k, c, i) = AIR )
       => <<chunks[k][c], i, c[1], c[2], c[3]>> \in mesh[k]
  /\ \A k \in DOMAIN chunks : \A f \in mesh[k] :
       chunks[k][<<f[3], f[4], f[5]>>] # AIR

\* ---------------------------------------------------------------- writes
\* the last operation was a setBlock that reached a loaded chunk
WroteLoaded ==
  /\ lastOp.op = "setBlock"
  /\ lastOp.y \in 0 .. WORLD_HEIGHT - 1
  /\ Owner(lastOp.x, lastOp.z) \in DOMAIN chunks

\* the four horizontal neighbours of chunk k
FourNeighbours(k) ==
  { <<k[1] - 1, k[2]>>, <<k[1] + 1, k[2]>>, <<k[1], k[2] - 1>>, <<k[1], k[2] + 1>> }

\* the neighbours of chunk k across the edge planes on which the voxel with
\* local coordinates (lx, lz) lies
EdgeNeighbours(k, lx, lz) ==
  {n \in FourNeighbours(k) :
     \/ lx = 0 /\ n = <<k[1] - 1, k[2]>>
     \/ lx = CHUNK_SIZE - 1 /\ n = <<k[1] + 1, k[2]>>
     \/ lz = 0 /\ n = <<k[1], k[2] - 1>>
     \/ lz = CHUNK_SIZE - 1 /\ n = <<k[1], k[2] + 1>>}

OnEdge(l) == l = 0 \/ l = CHUNK_SIZE - 1

\* C5: a setBlock that reaches a loaded chunk at a local coordinate on a
\* chunk edge (floored modulo) rebuilds every loaded horizontal neighbour.
C5_BoundaryPropagation ==
  ( /\ WroteLoaded
    /\ OnEdge(FlooredLocal(lastOp.x)) \/ OnEdge(FlooredLocal(lastOp.z)) )
  => \A n \in FourNeighbours(Owner(lastOp.x, lastOp.z)) :
       n \in DOMAIN chunks => n \in Rebuilt

\* C6 as stated: setBlock rebuilds only the owning chunk and the neighbours
\* across the edge planes the written voxel lies on.
C6_OnlySharedEdge ==
  WroteLoaded =>
    Rebuilt \subseteq
      {Owner(lastOp.x, lastOp.z)} \cup
      EdgeNeighbours(Owner(lastOp.x, lastOp.z),
                     FlooredLocal(lastOp.x), FlooredLocal(lastOp.z))

\* C6 as amended: setBlock rebuilds only the owning chunk and loaded chunks
\* among its four horizontal neighbours, and a write at an interior local
\* coordinate rebuilds the owning chunk alone, once.
C6_OnlyOwnerAndNeighbours ==
  WroteLoaded =>
    /\ Rebuilt \subseteq
         {Owner(lastOp.x, lastOp.z)} \cup
         (FourNeighbours(Owner(lastOp.x, lastOp.z)) \cap DOMAIN chunks)
    /\ ( /\ ~OnEdge(FlooredLocal(lastOp.x))
         /\ ~OnEdge(FlooredLocal(lastOp.z)) )
       => calls = << <<"updateMesh", Owner(lastOp.x, lastOp.z)>> >>

\* a write at local x = 0 and an interior local z that rebuilt the chunk
\* across the opposite edge
C6_Witness ==
  /\ WroteLoaded
  /\ FlooredLocal(lastOp.x) = 0
  /\ ~OnEdge(FlooredLocal(lastOp.z))
  /\ <<OwnerCoord(lastOp.x) + 1, OwnerCoord(lastOp.z)>> \in Rebuilt

\* ------------------------------------------------------ reads after writes
\* C7: a setBlock(x, y, z, k) with y in range and a loaded owning chunk makes
\* getBlock(x, y, z) return k and leaves getBlock at every other coordinate
\* as it was.
C7_WriteReadConsistency ==
  [][ ( /\ lastOp'.op = "setBlock"
        /\ lastOp'.y \in 0 .. WORLD_HEIGHT - 1
        /\ Owner(lastOp'.x, lastOp'.z) \in DOMAIN chunks )
      => /\ WorldGetBlock(chunks', lastOp'.x, lastOp'.y, lastOp'.z) = lastOp'.type
         /\ \A x \in ReadXZs, y \in ReadYs, z \in ReadXZs :
              <<x, y, z>> # <<lastOp'.x, lastOp'.y, lastOp'.z>>
              => WorldGetBlock(chunks', x, y, z) = WorldGetBlock(chunks, x, y, z)
    ]_vars

\* a write at a negative coordinate changed the kind read there
C7_Witness ==
  /\ WroteLoaded
  /\ lastOp.x < 0
  /\ lastOp.z < 0
  /\ lastOp.type = STONE
  /\ WorldGetBlock(chunks, lastOp.x, lastOp.y, lastOp.z) = STONE

\* C8: the chunk coordinate c and the adjusted local coordinate l that
\* setBlock computes for a world coordinate v satisfy 0 <= l < CHUNK_SIZE and
\* c * CHUNK_SIZE + l = v, and getBlock computes the same pair.
C8_CoordinateRoundTrip ==
  lastOp.op = "setBlock" =>
    \A v \in {lastOp.x, lastOp.z} :
      /\ SetBlockLocal(v) >= 0
      /\ SetBlockLocal(v) < CHUNK_SIZE
      /\ SetBlockChunk(v) * CHUNK_SIZE + SetBlockLocal(v) = v
      /\ GetBlockChunk(v) = SetBlockChunk(v)
      /\ GetBlockLocal(v) = SetBlockLocal(v)

\* a write whose x is negative and not a multiple of the chunk size and whose
\* z is positive
C8_Witness ==
  /\ WroteLoaded
  /\ lastOp.x = -1
  /\ lastOp.z = 1

\* C9: getBlock at a height outside [0, WORLD_HEIGHT) returns AIR, whatever
\* was written before.
C9_VerticalBoundSafety ==
  \A x \in ReadXZs, z \in ReadXZs :
    \A y \in {v \in ReadYs : v < 0 \/ v >= WORLD_HEIGHT} :
      WorldGetBlock(chunks, x, y, z) = AIR

\* a non-air write was aimed at a height above the world, over a loaded chunk
C9_Witness ==
  /\ lastOp.op = "setBlock"
  /\ lastOp.y = WORLD_HEIGHT
  /\ lastOp.type = STONE
  /\ Owner(lastOp.x, lastOp.z) \in DOMAIN chunks

\* the last setBlock was dropped: its height is out of range or its owning
\* chunk is not loaded
Dropped(op, loaded) ==
  /\ op.op = "setBlock"
  /\ \/ op.y < 0
     \/ op.y >= WORLD_HEIGHT
     \/ Owner(op.x, op.z) \notin loaded

\* C10: a dropped setBlock leaves the chunk map, every voxel array and every
\* mesh as they were and rebuilds nothing; getBlock at a coordinate of an
\* unloaded chunk returns AIR.
C10_DroppedWrites ==
  /\ [][ Dropped(lastOp', DOMAIN chunks)
         => /\ chunks' = chunks
            /\ order' = order
            /\ mesh' = mesh
            /\ calls' = <<>> ]_vars
  /\ [](\A x \in ReadXZs, y \in ReadYs, z \in ReadXZs :
          Owner(x, z) \notin DOMAIN chunks => WorldGetBlock(chunks, x, y, z) = AIR)

\* a write with a height in range was aimed at a chunk that is not loaded
C10_Witness ==
  /\ lastOp.op = "setBlock"
  /\ lastOp.y \in 0 .. WORLD_HEIGHT - 1
  /\ Owner(lastOp.x, lastOp.z) \notin DOMAIN chunks
  /\ calls = <<>>

\* ============================================ terrain under several draws
\* Spec gives every Chunk the same draw.  The terrain specification lets the
\* draws of the chunks of different calls differ and makes no writes, so
\* every voxel array in it is as Chunk.generate left it.
\* number of draws told apart in the terrain specification, less one
MaxDraw == 2

\* the values of Math.random() behind new SimplexNoise() and the tree roll
Draws == 0 .. MaxDraw

\* new World(scene), the chunks of the constructor drawing r
TerrainInit ==
  \E r \in Draws :
    LET w == GenerateInitialChunks(EmptyWorld, r)
    IN  /\ chunks = w.chunks
        /\ order = w.order
        /\ mesh = w.mesh
        /\ geometry = w.geometry
        /\ scene = w.scene
        /\ orphans = w.orphans
        /\ released = w.released
        /\ calls = w.calls
        /\ lastOp = [op |-> "new", x |-> 0, y |-> 0, z |-> 0, type |-> AIR]
        /\ nOps = 0
        /\ nEdits = 0
        /\ tall = Null
        /\ ControlsInit

TerrainNext ==
  \E p \in ObserverPositions, r \in Draws : Update(p[1], p[2], r)

TerrainSpec == TerrainInit /\ [][TerrainNext]_vars

\* C11: the voxel array a chunk holds when generate() has run is the array
\* that every run of generate() on a fresh chunk with the same coordinates
\* produces, whatever that run draws; so a chunk that is loaded again holds
\* the terrain it held the first time.
C11_TerrainDeterminism ==
  \A k \in DOMAIN chunks : \A r \in Draws :
    chunks[k] = GenerateBlocks(k[1], k[2], r)

\* ================================================================ ray casts
\* The ray specification starts from the constructed world with the column
\* at x = 0, z = 0 written by setBlock calls, air or stone at each height,
\* and casts rays along the axes.
Scenes == [0 .. WORLD_HEIGHT - 1 -> {AIR, STONE}]

\* world.setBlock(0, y, 0, column[y]) for every height from y on
RECURSIVE WriteColumn(_, _, _)
WriteColumn(w, column, y) ==
  IF y >= WORLD_HEIGHT THEN w
  ELSE WriteColumn(WorldSetBlock(w, 0, y, 0, column[y]), column, y + 1)

\* the origin of the ray that cuts the corner of the voxel (0, top, 0)
CornerOrigin == <<96, WORLD_HEIGHT * PosScale + 3, 50>>

RayOrigins == ({50} \X RayCoords \X {50}) \cup {CornerOrigin}

\* the six axis directions, one that is not of unit length, the zero
\* vector, and one direction that is along no axis
RayDirections ==
  { <<1, 0, 0>>, <<-1, 0, 0>>, <<0, 1, 0>>, <<0, -1, 0>>, <<0, 0, 1>>,
    <<0, 0, -1>>, <<0, -2, 0>>, <<0, 0, 0>>, <<3, -4, 0>> }

\* 0.6 and the default 5
RayDistances == {6 * RayStep, 5 * PosScale}

RayInit ==
  \E column \in Scenes :
    LET w == WriteColumn(GenerateInitialChunks(EmptyWorld, 0), column, 0)
    IN  /\ chunks = w.chunks
        /\ order = w.order
        /\ mesh = w.mesh
        /\ geometry = w.geometry
        /\ scene = w.scene
        /\ orphans = w.orphans
        /\ released = w.released
        /\ calls = w.calls
        /\ lastOp = [op |-> "new", x |-> 0, y |-> 0, z |-> 0, type |-> AIR]
        /\ nOps = 0
        /\ nEdits = 0
        /\ tall = Null
        /\ ControlsInit

\* this.selectedBlock = this.world.raycast(origin, direction, maxDistance)
Raycast(origin, direction, maxDistance) ==
  /\ selectedBlock' = WorldRaycast(chunks, origin, direction, maxDistance)
  /\ lastOp' = [op |-> "raycast", origin |-> origin, direction |-> direction,
                maxDistance |-> maxDistance]
  /\ calls' = <<>>
  /\ UNCHANGED <<chunks, order, mesh, geometry, scene, orphans, released, tall,
                 nOps, nEdits,
                 flyMode, moveUp, moveDown, canJump, velocityY, landed>>

RayNext ==
  \E origin \in RayOrigins, direction \in RayDirections,
     maxDistance \in RayDistances :
    Raycast(origin, direction, maxDistance)

RaySpec == RayInit /\ [][RayNext]_vars

\* the scenario at the model's height: the column at x = 0, z = 0 is stone
\* at every height except the gap, and the ray starts above the gap, at a
\* whole height inside the world, and points straight down
ScenarioGapY == WORLD_HEIGHT - 2
ScenarioOriginY == WORLD_HEIGHT - 1

ScenarioColumn ==
  \A y \in 0 .. WORLD_HEIGHT - 1 :
    WorldGetBlock(chunks, 0, y, 0) = IF y = ScenarioGapY THEN AIR ELSE STONE

ScenarioCast ==
  /\ lastOp.op = "raycast"
  /\ lastOp.origin = <<50, ScenarioOriginY * PosScale, 50>>
  /\ lastOp.direction = <<0, -1, 0>>
  /\ lastOp.maxDistance >= 2 * PosScale

ExactSample(origin, direction, i) ==
  <<FloorDiv(origin[1] + i * Scaled(Normalize(direction)[1]), PosScale),
    FloorDiv(origin[2] + i * Scaled(Normalize(direction)[2]), PosScale),
    FloorDiv(origin[3] + i * Scaled(Normalize(direction)[3]), PosScale)>>

\* the kind read at that voxel
SampleKind(origin, direction, i) ==
  WorldGetBlock(chunks, ExactSample(origin, direction, i)[1],
                ExactSample(origin, direction, i)[2],
                ExactSample(origin, direction, i)[3])

\* the numbers i < maxDistance / 0.1 of the samples of the last ray cast
\* whose voxel is not air
HitSamples ==
  { i \in 0 .. MaxSteps(lastOp.maxDistance) - 1 :
      SampleKind(lastOp.origin, lastOp.direction, i) # AIR }

Least(S) == CHOOSE i \in S : \A j \in S : i <= j

\* C13: raycast returns null exactly when no position origin + i * 0.1 *
\* normalize(direction) with i < maxDistance / 0.1 lies in a voxel that is
\* not air, and otherwise the voxel and kind of the first such position;
\* it changes neither the chunk map nor a voxel nor a mesh.
C13_RaycastFirstHit ==
  /\ [](lastOp.op = "raycast" =>
          IF HitSamples = {} THEN selectedBlock = Null
          ELSE /\ selectedBlock # Null
               /\ selectedBlock.position =
                    ExactSample(lastOp.origin, lastOp.direction, Least(HitSamples))
               /\ selectedBlock.blockType =
                    SampleKind(lastOp.origin, lastOp.direction, Least(HitSamples)))
  /\ [][lastOp'.op = "raycast" =>
          /\ chunks' = chunks
          /\ order' = order
          /\ mesh' = mesh]_vars

\* ========================================================= chunk lifecycle
\* the chunks on which the calls cs called dispose
Disposed(cs) ==
  { cs[i][2] : i \in { j \in 1 .. Len(cs) : cs[j][1] = "dispose" } }

\* C14: every chunk an operation removes from the chunk map is disposed
\* exactly once by that operation and nothing else is disposed; no chunk in
\* the map has been disposed; and once a chunk is disposed the operation
\* generates and rebuilds nothing more, no read reaches the voxels of the
\* disposed chunk, and no later write or rebuild reaches a chunk outside
\* the map.
C14_ChunkLifecycle ==
  /\ [][ /\ Disposed(calls') = DOMAIN chunks \ DOMAIN chunks'
         /\ \A k \in DOMAIN chunks \ DOMAIN chunks' :
              Cardinality({ i \in 1 .. Len(calls') :
                              calls'[i] = <<"dispose", k>> }) = 1 ]_vars
  /\ []( /\ Disposed(calls) \cap DOMAIN chunks = {}
         /\ \A i, j \in 1 .. Len(calls) :
              (i < j /\ calls[i][1] = "dispose") => calls[j][1] = "dispose"
         /\ \A k \in Disposed(calls) : \A c \in LocalCells :
              WorldGetBlock(chunks, k[1] * CHUNK_SIZE + c[1], c[2],
                            k[2] * CHUNK_SIZE + c[3]) = AIR
         /\ Rebuilt \subseteq DOMAIN chunks )

\* an update that disposed some chunks, kept others and generated new ones
C14_Witness ==
  /\ lastOp.op = "update"
  /\ Disposed(calls) # {}
  /\ \E i \in 1 .. Len(calls) : calls[i][1] = "generate"
  /\ \E k \in DOMAIN chunks : k \notin Rebuilt

\* ====================================================== FirstPersonControls
\* Vertical speeds are counted in 1/VelocityScale: with delta = 1/60 one
\* frame of gravity, 9.8 / 60 = 49/300, is a whole number of units.
VelocityScale == 60 * 5

\* this.gravity * delta = 9.8 * (1 / 60)
GravityStep == (98 * VelocityScale) \div (10 * 60)

\* this.jumpSpeed = 5
JumpSpeed == 5 * VelocityScale

\* this.MOVEMENT_SPEED = 1.5
MovementSpeed == (15 * VelocityScale) \div 10

\* number of frames a fall can last before the player collides
MaxFallFrames == 3

\* the key codes that reach the vertical movement state, and one that does
\* not; the other cases of the handlers set fields that are not modelled
KeyCodes == {"Space", "ShiftLeft", "ShiftRight", "KeyF"}

\* the controls fields held by the variables
Controls ==
  [flyMode |-> flyMode, moveUp |-> moveUp, moveDown |-> moveDown,
   canJump |-> canJump, velocityY |-> velocityY]

\* the variables take the controls fields c
ControlsBecome(c) ==
  /\ flyMode' = c.flyMode
  /\ moveUp' = c.moveUp
  /\ moveDown' = c.moveDown
  /\ canJump' = c.canJump
  /\ velocityY' = c.velocityY

\* OnKeyDown that toggles fly mode only when Ctrl is held with F
OnKeyDownCtrlF(c, code, ctrlKey) ==
  CASE code = "Space" ->
         [c EXCEPT !.velocityY = IF c.canJump /\ ~c.flyMode THEN JumpSpeed ELSE @,
                   !.canJump = IF c.canJump /\ ~c.flyMode THEN FALSE ELSE @,
                   !.moveUp = IF c.flyMode THEN TRUE ELSE @]
    [] code = "ShiftLeft" ->
         [c EXCEPT !.moveDown = IF c.flyMode THEN TRUE ELSE @]
    [] code = "KeyF" /\ ctrlKey ->
         [c EXCEPT !.flyMode = ~@,
                   !.velocityY = IF ~c.flyMode THEN 0 ELSE @]
    [] OTHER -> c

\* FirstPersonControls.onKeyDown(event) with event.code = code and
\* event.ctrlKey = ctrlKey, which the handler does not read
OnKeyDown(c, code, ctrlKey) ==
  CASE code = "Space" ->
         [c EXCEPT !.velocityY = IF c.canJump /\ ~c.flyMode THEN JumpSpeed ELSE @,
                   !.canJump = IF c.canJump /\ ~c.flyMode THEN FALSE ELSE @,
                   !.moveUp = IF c.flyMode THEN TRUE ELSE @]
    [] code = "ShiftLeft" ->
         [c EXCEPT !.moveDown = IF c.flyMode THEN TRUE ELSE @]
    [] code = "KeyF" ->
         [c EXCEPT !.flyMode = ~@,
                   !.velocityY = IF ~c.flyMode THEN 0 ELSE @]
    [] OTHER -> c

\* FirstPersonControls.onKeyUp(event)
OnKeyUp(c, code) ==
  CASE code = "Space" -> [c EXCEPT !.moveUp = FALSE]
    [] code = "ShiftLeft" -> [c EXCEPT !.moveDown = FALSE]
    [] OTHER -> c

\* velocity.y when FirstPersonControls.update reaches handleCollisions: the
\* gravity step outside fly mode, the fly speed in fly mode
VerticalVelocity(c) ==
  IF c.flyMode
  THEN (IF c.moveUp THEN MovementSpeed
        ELSE IF c.moveDown THEN -MovementSpeed
        ELSE 0)
  ELSE c.velocityY - GravityStep

\* the vertical part of FirstPersonControls.update with handleCollisions;
\* collides is the outcome of checkBlockCollision after the move in y, which
\* depends on the player position and the world
UpdateVertical(c, collides) ==
  LET v == VerticalVelocity(c)
  IN  IF collides
      THEN [c EXCEPT !.canJump = IF v < 0 THEN TRUE ELSE @,
                     !.velocityY = 0]
      ELSE [c EXCEPT !.canJump = IF ~c.flyMode /\ v # 0 THEN FALSE ELSE @,
                     !.velocityY = v]

\* the camera poses of the frames: above the column at x = 0, z = 0,
\* looking down or up
CameraOrigins == { <<50, 350, 50>> }
CameraDirections == { <<0, -1, 0>>, <<0, 1, 0>> }

\* a keydown event
KeyDown(code, ctrlKey) ==
  /\ ControlsBecome(OnKeyDown(Controls, code, ctrlKey))
  /\ lastOp' = [op |-> "keydown", code |-> code, ctrlKey |-> ctrlKey]
  /\ calls' = <<>>
  /\ UNCHANGED <<chunks, order, mesh, geometry, scene, orphans, released, tall,
                 nOps, nEdits, selectedBlock, landed>>

\* a keyup event
KeyUp(code) ==
  /\ ControlsBecome(OnKeyUp(Controls, code))
  /\ lastOp' = [op |-> "keyup", code |-> code, ctrlKey |-> FALSE]
  /\ calls' = <<>>
  /\ UNCHANGED <<chunks, order, mesh, geometry, scene, orphans, released, tall,
                 nOps, nEdits, selectedBlock, landed>>

\* FirstPersonControls.update(): the ray cast for the block selection, then
\* the movement; a fall lasts at most MaxFallFrames frames
Frame(origin, direction, collides) ==
  /\ collides \/ flyMode \/ velocityY - GravityStep >= -(MaxFallFrames * GravityStep)
  /\ selectedBlock' = WorldRaycast(chunks, origin, direction, 5 * PosScale)
  /\ ControlsBecome(UpdateVertical(Controls, collides))
  /\ landed' = (collides /\ VerticalVelocity(Controls) < 0)
  /\ lastOp' = [op |-> "frame", code |-> "", ctrlKey |-> FALSE,
                collides |-> collides]
  /\ calls' = <<>>
  /\ UNCHANGED <<chunks, order, mesh, geometry, scene, orphans, released, tall,
                 nOps, nEdits>>

ControlsNext ==
  \/ \E code \in KeyCodes, ctrlKey \in BOOLEAN : KeyDown(code, ctrlKey)
  \/ \E code \in KeyCodes : KeyUp(code)
  \/ \E origin \in CameraOrigins, direction \in CameraDirections,
        collides \in BOOLEAN :
       Frame(origin, direction, collides)

ControlsSpec == Init /\ [][ControlsNext]_vars

\* the step is a keydown event with the given code
IsKeyDown(op, code) == op.op = "keydown" /\ op.code = code

\* what the claim says of the keys and frames in fly mode, with the set of
\* codes of the Shift key as a parameter: Space sets moveUp and starts no
\* jump, Shift sets moveDown, and a frame leaves the fly speed as the
\* vertical velocity (zero after a collision), not the velocity less gravity
FlyModeMovement(shiftCodes) ==
  /\ (flyMode /\ IsKeyDown(lastOp', "Space")) =>
        moveUp' /\ velocityY' = velocityY
  /\ (flyMode /\ lastOp'.op = "keydown" /\ lastOp'.code \in shiftCodes) =>
        moveDown'
  /\ (flyMode /\ lastOp'.op = "frame") =>
        velocityY' = IF lastOp'.collides THEN 0
                     ELSE IF moveUp THEN MovementSpeed
                     ELSE IF moveDown THEN -MovementSpeed
                     ELSE 0

RequiredOf(op) ==
  { k \in ((OwnerCoord(op.x) - RENDER_DISTANCE) ..
           (OwnerCoord(op.x) + RENDER_DISTANCE)) \X
          ((OwnerCoord(op.z) - RENDER_DISTANCE) ..
           (OwnerCoord(op.z) + RENDER_DISTANCE)) : TRUE }

\* the chunks on which the calls cs called generate
Generated(cs) ==
  { cs[i][2] : i \in { j \in 1 .. Len(cs) : cs[j][1] = "generate" } }

\* C16: update(p) keeps every chunk that is in the map and in the required
\* set of p: it stays in the map with its voxel data, edits included, and
\* its mesh, and update calls neither generate nor dispose nor updateMesh on
\* it; an update whose position lies in the chunk column of the update
\* before it makes no call and changes nothing.
C16_UpdatePreservesResident ==
  [][ lastOp'.op = "update" =>
        /\ \A k \in DOMAIN chunks \cap RequiredOf(lastOp') :
             /\ k \in DOMAIN chunks'
             /\ chunks'[k] = chunks[k]
             /\ mesh'[k] = mesh[k]
             /\ \A i \in 1 .. Len(calls') : calls'[i][2] # k
        /\ ( /\ lastOp.op \in {"new", "update"}
             /\ Owner(lastOp'.x, lastOp'.z) = Owner(lastOp.x, lastOp.z) )
           => /\ calls' = <<>>
              /\ chunks' = chunks
              /\ order' = order
              /\ mesh' = mesh ]_vars

\* an update that generated chunks and kept a chunk that holds a voxel
\* written by setBlock
C16_Witness ==
  /\ lastOp.op = "update"
  /\ Generated(calls) # {}
  /\ \E k \in DOMAIN chunks \ Generated(calls) : \E c \in LocalCells :
       chunks[k][c] = STONE

\* ======================================================= atomic generation
\* the chunk map restricted to the keys in S
Restrict(f, S) == [k \in S \cap DOMAIN f |-> f[k]]

\* the position of the call <<"generate", k>> in the calls cs
GenerateIndex(cs, k) == CHOOSE i \in 1 .. Len(cs) : cs[i] = <<"generate", k>>

\* the chunks generated by the calls cs up to and including chunk k
GeneratedUpTo(cs, k) ==
  { cs[j][2] : j \in { i \in 1 .. GenerateIndex(cs, k) : cs[i][1] = "generate" } }

\* C17: every chunk of the map holds the whole output of one run of
\* generate(); a call of generate() runs to its mesh build before the next
\* chunk is generated; and the mesh a new chunk builds in generate() is the
\* mesh of its finished voxel array against the finished arrays of the
\* chunks that were in the map before it, the chunks generated after it
\* reading as air.
C17_AtomicGeneration ==
  /\ []( /\ \A k \in DOMAIN chunks : \E r \in Draws :
              chunks[k] = GenerateBlocks(k[1], k[2], r)
         /\ \A i \in 1 .. Len(calls) :
              calls[i][1] = "generate" =>
                /\ i < Len(calls)
                /\ calls[i + 1] = <<"updateMesh", calls[i][2]>>
         /\ lastOp.op = "new" =>
              \A i \in 1 .. Len(order) :
                mesh[order[i]] =
                  UpdateMesh(Restrict(chunks, { order[j] : j \in 1 .. i }),
                             order[i]) )
  /\ [][ lastOp'.op = "update" =>
           \A k \in Generated(calls') :
             mesh'[k] =
               UpdateMesh(chunks @@ Restrict(chunks', GeneratedUpTo(calls', k)),
                          k) ]_vars

\* an update generated at least two chunks next to each other, next to a
\* chunk that was in the map before
C17_Witness ==
  /\ lastOp.op = "update"
  /\ \E k \in Generated(calls) :
       /\ <<k[1], k[2] + 1>> \in Generated(calls)
       /\ <<k[1] + 1, k[2]>> \in DOMAIN chunks \ Generated(calls)

\* ==================================================== write before rebuild
\* the chunks on which the calls cs called updateMesh
RebuiltBy(cs) ==
  { cs[i][2] : i \in { j \in 1 .. Len(cs) : cs[j][1] = "updateMesh" } }

\* C18: when setBlock has written a voxel of a loaded chunk, the first
\* rebuild is the owning chunk's, and the mesh of every chunk the call
\* rebuilt, the owner and the neighbours, is the mesh of the voxel data with
\* the new kind at the written coordinate.
C18_WriteBeforeRebuild ==
  [][ ( /\ lastOp'.op = "setBlock"
        /\ lastOp'.y \in 0 .. WORLD_HEIGHT - 1
        /\ Owner(lastOp'.x, lastOp'.z) \in DOMAIN chunks )
      => /\ chunks'[Owner(lastOp'.x, lastOp'.z)]
                   [<<FlooredLocal(lastOp'.x), lastOp'.y, FlooredLocal(lastOp'.z)>>]
              = lastOp'.type
         /\ calls'[1] = <<"updateMesh", Owner(lastOp'.x, lastOp'.z)>>
         /\ \A k \in RebuiltBy(calls') : mesh'[k] = UpdateMesh(chunks', k)
    ]_vars

\* a write on a chunk edge rebuilt a neighbour whose mesh would have been
\* another one had the written voxel held bedrock, as it did at height 0
\* before the write
C18_Witness ==
  /\ WroteLoaded
  /\ \E n \in Rebuilt \ {Owner(lastOp.x, lastOp.z)} :
       mesh[n] # UpdateMesh(
                   [chunks EXCEPT ![Owner(lastOp.x, lastOp.z)]
                                   [<<FlooredLocal(lastOp.x), lastOp.y,
                                      FlooredLocal(lastOp.z)>>] = BEDROCK],
                   n)

\* =========================================================== face visibility
\* The face specification writes every kind at three voxels in a row along
\* x: two of chunk (0, 0), the second on its edge, and the first voxel of
\* chunk (1, 0) next to it.
\* number of writes in one behaviour of the face specification
MaxFaceEdits == 2

FaceXs == {CHUNK_SIZE - 2, CHUNK_SIZE - 1, CHUNK_SIZE}

\* World.setBlock(x, 1, 1, type)
FaceWrite(x, type) ==
  /\ nEdits < MaxFaceEdits
  /\ Becomes(WorldSetBlock(Current, x, 1, 1, type))
  /\ lastOp' = [op |-> "setBlock", x |-> x, y |-> 1, z |-> 1, type |-> type]
  /\ nEdits' = nEdits + 1
  /\ UNCHANGED <<nOps, controlVars, tall>>

FaceNext == \E x \in FaceXs, type \in BlockType : FaceWrite(x, type)

FaceSpec == Init /\ [][FaceNext]_vars

\* the neighbour of cell c in direction i lies outside the chunk's own array
OutOfChunk(c, i) ==
  \/ c[1] + Directions[i][1] \notin 0 .. CHUNK_SIZE - 1
  \/ c[2] + Directions[i][2] \notin 0 .. WORLD_HEIGHT - 1
  \/ c[3] + Directions[i][3] \notin 0 .. CHUNK_SIZE - 1

\* C19: for every voxel that is not air and every direction, isFaceVisible
\* is true iff the neighbour is air or is transparent and of another kind
\* than the voxel, for a neighbour inside the chunk and for one read through
\* World.getBlock alike; without a world reference every face towards a
\* neighbour outside the chunk is visible and the others follow the rule.
C19_FaceVisibilityRule ==
  \A k \in DOMAIN chunks : \A c \in LocalCells : \A i \in 0 .. 5 :
    chunks[k][c] # AIR =>
      /\ IsFaceVisible(chunks, k, c[1], c[2], c[3], Directions[i][1],
                       Directions[i][2], Directions[i][3])
           <=> RuleVisible(chunks[k][c],
                           IF NeighbourLoaded(k, c, i)
                           THEN NeighbourKind(k, c, i) ELSE AIR)
      /\ IsFaceVisibleDetached(chunks[k], c[1], c[2], c[3], Directions[i][1],
                               Directions[i][2], Directions[i][3])
           <=> \/ OutOfChunk(c, i)
               \/ RuleVisible(chunks[k][c], NeighbourKind(k, c, i))

\* glass on the edge of chunk (0, 0) with water next to it in chunk (1, 0),
\* and water over water inside the chunks
C19_Witness ==
  /\ chunks[<<0, 0>>][<<CHUNK_SIZE - 1, 1, 1>>] = GLASS
  /\ chunks[<<1, 0>>][<<0, 1, 1>>] = WATER
  /\ chunks[<<1, 0>>][<<0, 2, 1>>] = WATER

\* ========================================================= mesh build output
\* the corners of face i of the voxel at local c, in half voxels
FaceCorners(c, i) ==
  { [a \in 1 .. 3 |-> IF Directions[i][a] # 0
                      THEN 2 * c[a] + 1 + Directions[i][a]
                      ELSE 2 * c[a] + s[a]] :
      s \in {0, 2} \X {0, 2} \X {0, 2} }

\* the vertices of quad q of the mesh m: four consecutive positions
QuadVertices(m, q) == { m.positions[j] : j \in 4 * q - 3 .. 4 * q }

\* the indices of quad q of the mesh m: six consecutive entries
QuadIndices(m, q) == { m.indices[j] : j \in 6 * q - 5 .. 6 * q }

\* the quads <<a, q>> of the group g that draw the face f = <<kind, i, x, y, z>>:
\* quad q of a mesh a keyed by (kind, i) whose vertices are the face's corners
QuadsOf(g, f) ==
  LET keyed == { a \in 1 .. Len(g) : /\ g[a].blockType = f[1]
                                     /\ g[a].faceIndex = f[2] }
  IN  { aq \in UNION { {a} \X (1 .. Len(g[a].positions) \div 4) : a \in keyed } :
          QuadVertices(g[aq[1]], aq[2]) = FaceCorners(<<f[3], f[4], f[5]>>, f[2]) }

RECURSIVE SumQuads(_, _)
SumQuads(g, a) ==
  IF a > Len(g) THEN 0 ELSE Len(g[a].positions) \div 4 + SumQuads(g, a + 1)

\* C20: when an operation has run updateMesh on a chunk that is still loaded,
\* the chunk's group holds exactly one quad, of 4 vertices and 6 indices, for
\* each face that was visible when updateMesh ran (the faces in mesh) and no
\* other quad; the quad is in the batch keyed by the voxel's kind and the
\* direction, there is one batch per key and none is empty, and every index
\* of a batch refers to a vertex of that batch, those of a quad to its own
\* four vertices. A rebuild over unchanged voxel data of a chunk whose mesh
\* was built from that data leaves the same batches.
C20_MeshBuildOutput ==
  /\ [](\A k \in RebuiltBy(calls) \cap DOMAIN chunks :
          LET g == geometry[k]
          IN  /\ \A a \in 1 .. Len(g) :
                    /\ Len(g[a].positions) > 0
                    /\ Len(g[a].positions) % 4 = 0
                    /\ Len(g[a].indices) * 4 = Len(g[a].positions) * 6
                    /\ \A j \in 1 .. Len(g[a].indices) :
                          g[a].indices[j] \in 0 .. Len(g[a].positions) - 1
                    /\ \A q \in 1 .. Len(g[a].positions) \div 4 :
                          QuadIndices(g[a], q) = 4 * q - 4 .. 4 * q - 1
                    /\ \A b \in 1 .. Len(g) :
                          a # b => \/ g[a].blockType # g[b].blockType
                                   \/ g[a].faceIndex # g[b].faceIndex
              /\ \A f \in mesh[k] : Cardinality(QuadsOf(g, f)) = 1
              /\ SumQuads(g, 1) = Cardinality(mesh[k]))
  /\ [][\A k \in RebuiltBy(calls') \cap DOMAIN chunks :
          (chunks' = chunks /\ mesh[k] = UpdateMesh(chunks, k))
            => geometry'[k] = geometry[k]]_vars

\* two writes have been made, and the chunk at the origin holds a batch of
\* glass faces, a batch of more than one quad and a batch of bottom faces
C20_Witness ==
  /\ nEdits = MaxFaceEdits
  /\ lastOp.op = "setBlock"
  /\ LET g == geometry[<<0, 0>>]
     IN  /\ \E a \in 1 .. Len(g) : g[a].blockType = GLASS
         /\ \E a \in 1 .. Len(g) : Len(g[a].positions) > 4
         /\ \E a \in 1 .. Len(g) : g[a].faceIndex = 3

\* ============================================================ the Chunk calls
\* number of calls made on chunks directly in one behaviour
MaxChunkCalls == 3

\* the chunks the calls are made on
CalledChunks == { <<0, 0>> }

\* local coordinates of the writes: two voxels of the chunk and one
\* coordinate triple beyond each of the six bounds
CalledCells ==
  { <<0, 0, 0>>, <<CHUNK_SIZE - 1, WORLD_HEIGHT - 1, CHUNK_SIZE - 1>>,
    <<-1, 0, 0>>, <<CHUNK_SIZE, 0, 0>>, <<0, -1, 0>>, <<0, WORLD_HEIGHT, 0>>,
    <<0, 0, -1>>, <<0, 0, CHUNK_SIZE>> }

\* the kinds written: the kind generate() put at height 0, and another
CalledKinds == {BEDROCK, GLASS}

\* chunk.setBlock(x, y, z, type) on the chunk at key
ChunkWrite(key, x, y, z, type) ==
  /\ nEdits < MaxChunkCalls
  /\ Becomes(ChunkSetBlock(Current, key, x, y, z, type))
  /\ lastOp' = [op |-> "chunkSetBlock", key |-> key, x |-> x, y |-> y,
                z |-> z, type |-> type, again |-> FALSE]
  /\ nEdits' = nEdits + 1
  /\ UNCHANGED <<nOps, controlVars, tall>>

\* chunk.updateMesh() on the chunk at key, as a write next to it makes
\* World.updateNeighborChunksIfNeeded call it
ChunkRebuild(key) ==
  /\ nEdits < MaxChunkCalls
  /\ Becomes(RebuildChunk(Current, key))
  /\ lastOp' = [op |-> "chunkUpdateMesh", key |-> key, x |-> 0, y |-> 0,
                z |-> 0, type |-> AIR, again |-> FALSE]
  /\ nEdits' = nEdits + 1
  /\ UNCHANGED <<nOps, controlVars, tall>>

\* chunk.dispose() on the chunk at key; again records that the call before
\* it was a dispose() of the same chunk
ChunkDisposeCall(key) ==
  /\ nEdits < MaxChunkCalls
  /\ Becomes(ChunkDispose(Current, key))
  /\ lastOp' = [op |-> "chunkDispose", key |-> key, x |-> 0, y |-> 0,
                z |-> 0, type |-> AIR,
                again |-> (lastOp.op = "chunkDispose" /\ lastOp.key = key)]
  /\ nEdits' = nEdits + 1
  /\ UNCHANGED <<nOps, controlVars, tall>>

ChunkNext ==
  \E key \in CalledChunks :
    \/ \E c \in CalledCells, type \in CalledKinds :
         ChunkWrite(key, c[1], c[2], c[3], type)
    \/ ChunkRebuild(key)
    \/ ChunkDisposeCall(key)

ChunkSpec == Init /\ [][ChunkNext]_vars

\* ============================================================ released resources
\* the buffers and materials the chunk at key has created and not disposed
Live(key) ==
  orphans[key] + (IF key \in released THEN 0 ELSE Held(geometry[key]))

\* C21: when dispose() has returned, no geometry buffer and no material that
\* the chunk created since its construction is live.
C21_ResourcesReleased ==
  lastOp.op = "chunkDispose" => Live(lastOp.key) = 0

\* ============================================================ dispose twice
\* C22: a dispose() that follows a dispose() of the same chunk leaves the
\* scene, the chunk's voxels and group and its resources as they were.
C22_DisposeIdempotent ==
  [][(lastOp'.op = "chunkDispose" /\ lastOp'.again)
       => /\ scene' = scene
          /\ chunks' = chunks
          /\ order' = order
          /\ mesh' = mesh
          /\ geometry' = geometry
          /\ orphans' = orphans
          /\ released' = released
          /\ calls' = << <<"dispose", lastOp'.key>> >>]_vars

\* dispose() has been called twice in a row on a chunk whose group has
\* children
C22_Witness ==
  /\ lastOp.op = "chunkDispose"
  /\ lastOp.again
  /\ geometry[lastOp.key] # <<>>
  /\ lastOp.key \notin scene

\* ============================================================ Chunk.setBlock
InRange(x, y, z) ==
  /\ x \in 0 .. CHUNK_SIZE - 1
  /\ y \in 0 .. WORLD_HEIGHT - 1
  /\ z \in 0 .. CHUNK_SIZE - 1

\* C23: Chunk.setBlock with coordinates in range stores the kind at that
\* voxel, leaves every other voxel as it was and rebuilds this chunk once,
\* also when the voxel held the kind already; with a coordinate out of range
\* it changes no voxel and rebuilds nothing; Chunk.getBlock out of range
\* returns air.
C23_ChunkWrite ==
  /\ [](\A k \in DOMAIN chunks : \A c \in CalledCells :
          ~InRange(c[1], c[2], c[3])
            => ChunkGetBlock(chunks[k], c[1], c[2], c[3]) = AIR)
  /\ [][lastOp'.op = "chunkSetBlock" =>
          LET k == lastOp'.key
              c == <<lastOp'.x, lastOp'.y, lastOp'.z>>
          IN  IF InRange(c[1], c[2], c[3])
              THEN /\ chunks'[k][c] = lastOp'.type
                   /\ \A d \in LocalCells \ {c} : chunks'[k][d] = chunks[k][d]
                   /\ \A n \in DOMAIN chunks \ {k} : chunks'[n] = chunks[n]
                   /\ DOMAIN chunks' = DOMAIN chunks
                   /\ calls' = << <<"updateMesh", k>> >>
                   /\ mesh'[k] = UpdateMesh(chunks', k)
              ELSE /\ chunks' = chunks
                   /\ mesh' = mesh
                   /\ geometry' = geometry
                   /\ calls' = <<>>]_vars

\* a write in range has stored the kind the voxel held before
C23_Witness ==
  /\ lastOp.op = "chunkSetBlock"
  /\ InRange(lastOp.x, lastOp.y, lastOp.z)
  /\ lastOp.y = 0
  /\ lastOp.type = BEDROCK
  /\ calls = << <<"updateMesh", lastOp.key>> >>

\* ====================================================== a chunk on its own
\* The terrain claims need ground high enough for grass and trees.  Their
\* specification constructs one Chunk with a size and height of its own, no
\* World, and calls generate() on it; tall holds its voxel array, the calls
\* of generateTree of the last generate() and the terrain heights that
\* getTerrainHeight returned.  The mesh that generate() builds from the
\* voxel array at its end is not held.
TallSize == 6
TallHeight == 26

TallColumns == (0 .. TallSize - 1) \X (0 .. TallSize - 1)

\* noise sums in 1/HeightScale: heights under 1, at 1, 1.5, 2, 5, 9.5, 10,
\* 11.5, 12, 12.5, 13, 18, 24, 24.5, 25 and above
TallNoises == {-20, -18, -17, -16, -10, -1, 0, 3, 4, 5, 6, 16, 28, 29, 30, 40}

\* the noise sum is the same at every column, or grows by 1/HeightScale per
\* column step
TallTilts == {0, 1}

\* the columns at which the tree roll succeeds: none, one, two neighbours,
\* all
TallRolls == { {}, { <<2, 2>> }, { <<2, 2>>, <<2, 3>> }, TallColumns }

\* 4 + Math.floor(Math.random() * 3)
TrunkHeights == 4 .. 6

\* getTerrainHeight of every column for the noise sum and tilt
TallHeightAt(noise, tilt) ==
  [c \in TallColumns |-> ClampHeight(TallHeight, noise + tilt * (c[1] + c[2]))]

\* new Chunk(scene, textureManager, 0, 0, TallSize, TallHeight)
TallInit ==
  /\ chunks = EmptyWorld.chunks
  /\ order = EmptyWorld.order
  /\ mesh = EmptyWorld.mesh
  /\ geometry = EmptyWorld.geometry
  /\ scene = EmptyWorld.scene
  /\ orphans = EmptyWorld.orphans
  /\ released = EmptyWorld.released
  /\ calls = <<>>
  /\ lastOp = [op |-> "newChunk", noise |-> 0, tilt |-> 0, rolls |-> {},
               trunkHeight |-> 0]
  /\ nOps = 0
  /\ nEdits = 0
  /\ tall = [blocks |-> [c \in CellsOf(TallSize, TallHeight) |-> AIR],
             trees |-> <<>>,
             heightAt |-> [c \in TallColumns |-> 0]]
  /\ ControlsInit

\* chunk.generate() on the chunk, called once after the construction as
\* World.generateChunk does: the noise source gives the noise sum and tilt,
\* Math.random() the rolls and the trunk height
TallGenerate(noise, tilt, rolls, trunkHeight) ==
  LET heightAt == TallHeightAt(noise, tilt)
      g == GenerateColumnsIn(TallSize, TallHeight,
                             [blocks |-> tall.blocks, trees |-> <<>>],
                             heightAt, rolls,
                             [c \in TallColumns |-> trunkHeight], 0)
  IN  /\ lastOp.op = "newChunk"
      /\ tall' = [blocks |-> g.blocks, trees |-> g.trees, heightAt |-> heightAt]
      /\ lastOp' = [op |-> "generate", noise |-> noise, tilt |-> tilt,
                    rolls |-> rolls, trunkHeight |-> trunkHeight]
      /\ UNCHANGED <<chunks, order, mesh, geometry, scene, orphans, released,
                     calls, nOps, nEdits, controlVars>>

TallNext ==
  \E noise \in TallNoises, tilt \in TallTilts, rolls \in TallRolls,
     trunkHeight \in TrunkHeights :
    TallGenerate(noise, tilt, rolls, trunkHeight)

TallSpec == TallInit /\ [][TallNext]_vars

\* ============================================================ terrain layers
\* the surface block of a column of terrain height h
SurfaceKind(h) ==
  IF h < 12 * HeightScale THEN SAND
  ELSE IF h > 24 * HeightScale THEN STONE
  ELSE GRASS

\* floor(h - 1)
SurfaceY(h) == FloorDiv(h - 1 * HeightScale, HeightScale)

\* C24: after a generate() that placed no tree, in every column of terrain
\* height h: height 0 is bedrock; every y with 0 < y < h - 4 is stone; every
\* other y < h - 1 but floor(h - 1) is dirt; floor(h - 1) is the surface
\* block, sand for h < 12, stone for h > 24, else grass; above it is water
\* where y < 10 and h < 10, else air.
C24_TerrainLayering ==
  (lastOp.op = "generate" /\ tall.trees = <<>>) =>
    \A c \in TallColumns :
      LET h == tall.heightAt[c]
          at(y) == tall.blocks[<<c[1], y, c[2]>>]
      IN  /\ at(0) = BEDROCK
          /\ at(SurfaceY(h)) = SurfaceKind(h)
          /\ \A y \in 1 .. TallHeight - 1 :
                IF y * HeightScale < h - 4 * HeightScale THEN at(y) = STONE
                ELSE IF y = SurfaceY(h) THEN TRUE
                ELSE IF y * HeightScale < h - 1 * HeightScale THEN at(y) = DIRT
                ELSE IF y < 10 /\ h < 10 * HeightScale THEN at(y) = WATER
                ELSE at(y) = AIR

\* ================================================================== trees
\* the trees the last generate() placed
PlacedTrees == { tall.trees[i] : i \in { j \in 1 .. Len(tall.trees) :
                                           tall.trees[j].placed } }

\* the trunk voxels of a placed tree
TrunkOf(t) == { <<t.x, t.y + tY, t.z>> : tY \in 0 .. t.trunkHeight - 1 }

\* the voxels of the sphere of radius 2 about the voxel over the trunk top
SphereOf(t) ==
  { <<t.x + l[1], t.y + t.trunkHeight + l[2], t.z + l[3]>> :
      l \in { m \in (-2 .. 2) \X (-2 .. 2) \X (-2 .. 2) :
                m[1] * m[1] + m[2] * m[2] + m[3] * m[3] <= 4 } }

\* C25: when generate() returns, every voxel of the leaf sphere of every
\* placed tree that is inside the grid and is not a trunk voxel is leaves.
C25_TreeLeafSphere ==
  lastOp.op = "generate" =>
    \A t \in PlacedTrees :
      \A c \in SphereOf(t) \cap CellsOf(TallSize, TallHeight) :
        c \notin UNION { TrunkOf(u) : u \in PlacedTrees }
          => tall.blocks[c] = LEAVES

\* C26: when generate() returns, every placed tree has a trunk height of 4,
\* 5 or 6 and every voxel of its trunk is wood: no leaves were written over
\* a trunk.
C26_TrunksUnbroken ==
  lastOp.op = "generate" =>
    \A t \in PlacedTrees :
      /\ t.trunkHeight \in 4 .. 6
      /\ \A c \in TrunkOf(t) : tall.blocks[c] = WOOD

\* the tree is too near the chunk's edge or too tall for the chunk
OutsideMargin(t) ==
  \/ t.x < 2 \/ t.x >= TallSize - 2
  \/ t.z < 2 \/ t.z >= TallSize - 2
  \/ t.y + 5 >= TallHeight

\* C27: a call of generateTree places nothing when x < 2, x >= S - 2, z < 2,
\* z >= S - 2 or y + 5 >= H, and otherwise writes trunk and leaf voxels of
\* the chunk's own array only; the array generate() leaves has the indices
\* of the chunk, no more and no less.
C27_TreesInsideChunk ==
  lastOp.op = "generate" =>
    /\ DOMAIN tall.blocks = CellsOf(TallSize, TallHeight)
    /\ \A i \in 1 .. Len(tall.trees) :
         LET t == tall.trees[i]
         IN  /\ t.placed <=> ~OutsideMargin(t)
             /\ OutsideMargin(t) =>
                  GenerateTreeIn(TallSize, TallHeight, tall.blocks,
                                 t.x, t.y, t.z, t.trunkHeight) = tall.blocks
             /\ ~OutsideMargin(t) =>
                  (TrunkCells(t.x, t.y, t.z, t.trunkHeight)
                     \cup LeafCells(TallSize, TallHeight, t.x, t.y, t.z,
                                    t.trunkHeight))
                    \subseteq CellsOf(TallSize, TallHeight)

\* one generate() has placed a tree, refused one at the chunk's edge and
\* refused one for its height
C27_Witness ==
  /\ lastOp.op = "generate"
  /\ PlacedTrees # {}
  /\ \E i \in 1 .. Len(tall.trees) :
       ~tall.trees[i].placed /\ tall.trees[i].x < 2
  /\ \E i \in 1 .. Len(tall.trees) :
       /\ ~tall.trees[i].placed
       /\ tall.trees[i].x \in 2 .. TallSize - 3
       /\ tall.trees[i].z \in 2 .. TallSize - 3

\* ============================================================== hit normal
\* C28: the normal of every hit raycast returns has its components in
\* {-1, 0, 1} and at least one of them is not zero, so that hit position +
\* normal is another voxel than the hit voxel, also when the origin of the
\* ray lies inside a voxel that is not air.
C28_HitNormal ==
  (lastOp.op = "raycast" /\ selectedBlock # Null) =>
    /\ \A a \in 1 .. 3 : selectedBlock.normal[a] \in {-1, 0, 1}
    /\ selectedBlock.normal # <<0, 0, 0>>

\* ========================================================= continuous ray
\* The continuous ray is followed in steps of 1/Fine of the step of
\* raycast.  Along an axis the ray changes voxel once in 10 steps; along
\* (3, -4, 0) it changes voxel at multiples of 1/6 and of 1/8 of a step,
\* which are at least 1/24 apart, so that with Fine = 48 at least one point
\* lies in every voxel the ray passes through.
Fine == 2 * 24

\* the voxel of the point origin + (j / Fine) * 0.1 * normalize(direction)
FinePoint(origin, direction, j) ==
  <<FloorDiv(origin[1] * Fine + j * Scaled(Normalize(direction)[1]),
             PosScale * Fine),
    FloorDiv(origin[2] * Fine + j * Scaled(Normalize(direction)[2]),
             PosScale * Fine),
    FloorDiv(origin[3] * Fine + j * Scaled(Normalize(direction)[3]),
             PosScale * Fine)>>

\* the points of the last ray, up to maxDistance, whose voxel is not air
SolidPoints ==
  { j \in 0 .. Fine * (lastOp.maxDistance \div RayStep) :
      LET c == FinePoint(lastOp.origin, lastOp.direction, j)
      IN  WorldGetBlock(chunks, c[1], c[2], c[3]) # AIR }

\* C29: the voxel raycast returns is the first voxel that is not air among
\* the voxels the continuous ray passes through within maxDistance, and
\* raycast returns null only when the ray passes through no such voxel.
C29_NoSkippedVoxel ==
  lastOp.op = "raycast" =>
    IF SolidPoints = {} THEN selectedBlock = Null
    ELSE /\ selectedBlock # Null
         /\ selectedBlock.position =
              FinePoint(lastOp.origin, lastOp.direction, Least(SolidPoints))

\* ==================================================================== jump
\* the step is the Space keydown that starts a jump: velocity.y becomes
\* jumpSpeed and canJump is taken
JumpStarts ==
  /\ IsKeyDown(lastOp', "Space")
  /\ canJump /\ ~canJump'
  /\ velocityY' = JumpSpeed

\* C30: a jump starts only outside fly mode and when the most recent
\* update() ended with a collision on the way down, whatever keys were
\* pressed since; a player who flew up from the ground and left fly mode
\* cannot jump in mid-air.
C30_NoJumpWhileAirborne ==
  [][JumpStarts => (~flyMode /\ landed)]_vars

====
